---------------------------- MODULE Spec2Model ----------------------------
(***************************************************************************)
(* Model of the tri-agent system: the shared store (shared/memory.py), the *)
(* complexity assessor and spawner (core/spawner.py) and the inference     *)
(* failover layer (core/inference_layer.py).                               *)
(*                                                                         *)
(* Timestamps (datetime.now()) are not modelled: no operation reads them.  *)
(* uuid4 team ids are modelled as fresh ids <<owner, k>>.                  *)
(***************************************************************************)
EXTENDS Integers, Sequences, FiniteSets, TLC

VARIABLES
    \* ---- persisted workspace files (shared/memory.py) ----
    memory_file,     \* workspace -> [ok, data]: memory.json (ok = FALSE: truncated by an open write)
    context_file,    \* workspace -> [ok, data]: context.json
    log_file,        \* workspace -> sequence of log lines
    \* ---- threads calling store operations on SharedMemory instances ----
    instOf,          \* thread -> the SharedMemory instance it calls through
    instWs,          \* instance -> the workspace_id it was constructed on
    lock,            \* instance -> 0 (free) or the thread holding self.lock
    pc,              \* thread -> position inside the current store operation
    cur,             \* thread -> the operation in progress
    local,           \* thread -> the dict returned by _read_json
    wdirty,          \* thread -> another writer closed the same file during this write
    hist,            \* thread -> the operations it has finished, with their outcome
    \* ---- spawners (core/spawner.py) ----
    spawned_teams,   \* spawner -> self.spawned_teams, the active-team registry
    team_configs,    \* team id -> the persisted spawned/<team_id>/config.json
    uuid_count,      \* spawner -> number of team ids it has generated
    terminations,    \* number of terminate_team calls made
    last_call,       \* the last spawner call and what it returned
    \* ---- threads inside spawn_tri_agent_team of one spawner ----
    sp_pc,           \* thread -> position inside spawn_tri_agent_team
    sp_team,         \* thread -> the team_id it generated
    sp_local,        \* thread -> the dict register_spawned_agent has read
    \* ---- inference layer (core/inference_layer.py) ----
    provider_names,     \* all_providers: the get_name() of each provider, in priority order
    provider_failures,  \* self.provider_failures: name -> failure count
    gen_pc,             \* position inside generate: idle, probe, generate
    gen_i,              \* index in all_providers of the provider the loop is at
    gen_result,         \* what the last finished generate call returned or raised
    gen_calls,          \* number of generate calls started
    gen_trace,          \* this call: provider index -> [probes, attempts, outcome, before]
    own_failures,       \* provider index -> its own failures since its last own success
    \* ---- complexity assessor (core/spawner.py) ----
    assess_last,        \* the last assess_task_complexity call: task, score, teams
    assess_prev,        \* the call before it: score, teams
    \* ---- sequential callers ----
    task_call,          \* the last spawn_for_task call and what it returned
    store_call,         \* the last store operation of a sequential caller and its result
    \* ---- agents and orchestrator (agents/*.py, core/orchestrator.py) ----
    agent_objs,         \* the fields the agent and orchestrator objects keep
    orch_call,          \* the last orchestrator or agent call and what it returned
    break_pc            \* caller -> position inside agent1_takes_break

storeVars == <<memory_file, context_file, log_file>>
procVars == <<instOf, instWs, lock, pc, cur, local, wdirty, hist>>
spawnVars == <<spawned_teams, team_configs, uuid_count, terminations, last_call>>
spawnThreadVars == <<sp_pc, sp_team, sp_local>>
inferVars == <<provider_names, provider_failures, gen_pc, gen_i, gen_result,
               gen_calls, gen_trace, own_failures>>
assessVars == <<assess_last, assess_prev>>
seqVars == <<task_call, store_call>>
orchVars == <<agent_objs, orch_call, break_pc>>
vars == <<storeVars, procVars, spawnVars, spawnThreadVars, inferVars, assessVars,
          seqVars, orchVars>>

\* What the steps of one component leave unchanged.
exceptStoreThreads == <<spawnVars, spawnThreadVars, inferVars, assessVars, seqVars,
                        orchVars>>
exceptSpawner == <<procVars, spawnThreadVars, inferVars, assessVars, seqVars,
                   orchVars>>
exceptSpawnThreads == <<procVars, inferVars, assessVars, seqVars, orchVars>>
exceptInference == <<storeVars, procVars, spawnVars, spawnThreadVars, assessVars,
                     seqVars, orchVars>>
exceptAssessor == <<storeVars, procVars, spawnVars, spawnThreadVars, inferVars,
                    seqVars, orchVars>>

\* ---------------------------------------------------------------- bounds
MaxOpsPerThread == 1
MaxTeamIds == 11
MaxTerminations == 1
MaxRacingCalls == 1
MaxProviders == 3
MaxGenerateCalls == 2
MaxSubtasks == 6
MaxDependencies == 3
MaxTaskCalls == 1
MaxStoreCalls == 4
MaxBugId == 2
MaxLines == 3

\* ------------------------------------------------ shared/memory.py: data
\* "default_layer1" and "default_layer2_monitor": the workspaces a dual-layer
\* system constructed on "default" gives its primary and its shadow agents.
Workspaces == {"default", "other", "default_layer1", "default_layer2_monitor"}
Threads == {1, 2}
Instances == {1, 2}
None == "None"

AgentIds == {"agent1_coder", "agent2_improver", "agent3_doctor"}

InitialAgentStates ==
    [a \in AgentIds |-> [status |-> "idle", current_task |-> None]]

InitialMemory(w) ==
    [workspace_id |-> w,
     conversation_history |-> <<>>,
     decisions |-> <<>>,
     bugs_encountered |-> <<>>,
     solutions |-> <<>>,
     agent_states |-> InitialAgentStates,
     spawned_agents |-> <<>>]

InitialContext ==
    [user_input |-> <<>>, user_docs |-> <<>>, codebase_context |-> <<>>]

\* -------------------------------------- shared/memory.py: the mutations
\* Each operator is the change a handler makes to the dict it has read.
add_conversation(m, agent_id, role, content) ==
    [m EXCEPT !.conversation_history =
        Append(@, [agent_id |-> agent_id, role |-> role, content |-> content])]

add_decision(m, agent_id, decision, reasoning) ==
    [m EXCEPT !.decisions =
        Append(@, [agent_id |-> agent_id, decision |-> decision,
                   reasoning |-> reasoning])]

add_bug(m, agent_id, bug_description) ==
    [m EXCEPT !.bugs_encountered =
        Append(@, [agent_id |-> agent_id, description |-> bug_description,
                   resolved |-> FALSE])]

\* bug_id indexes the list from 0; a negative bug_id indexes from the end
\* (Python list indexing) and raises IndexError when it is out of range.
add_solution_raises(m, bug_id) ==
    bug_id < 0 - Len(m.bugs_encountered)

add_solution(m, agent_id, bug_id, solution) ==
    LET n == Len(m.bugs_encountered)
        m1 == [m EXCEPT !.solutions =
                  Append(@, [agent_id |-> agent_id, bug_id |-> bug_id,
                             solution |-> solution])]
        pos == IF bug_id >= 0 THEN bug_id + 1 ELSE n + bug_id + 1
    IN  IF bug_id < n
        THEN [m1 EXCEPT !.bugs_encountered[pos].resolved = TRUE]
        ELSE m1

update_agent_state(m, agent_id, status, task) ==
    [m EXCEPT !.agent_states =
        (agent_id :> [status |-> status, current_task |-> task]) @@ @]

register_spawned_agent(m, parent_id, spawned_id, task) ==
    [m EXCEPT !.spawned_agents =
        Append(@, [parent_id |-> parent_id, spawned_id |-> spawned_id,
                   task |-> task, status |-> "active"])]

add_user_context(c, context_type, content) ==
    IF context_type = "user_input"
    THEN [c EXCEPT !.user_input = Append(@, [content |-> content])]
    ELSE IF context_type = "user_docs"
    THEN [c EXCEPT !.user_docs = Append(@, [content |-> content])]
    ELSE [c EXCEPT !.codebase_context = Append(@, [content |-> content])]

\* One log line: "[timestamp] [agent_id] LEVEL: message".
LogLine(agent_id, message, level) ==
    [agent_id |-> agent_id, level |-> level, message |-> message]

\* ------------------------------- threads calling the store concurrently
\* A call of one of the seven mutating operations, with its arguments.
StoreOp(op, a1, a2, a3, n) ==
    [op |-> op, a1 |-> a1, a2 |-> a2, a3 |-> a3, n |-> n]

NoOp == StoreOp("none", None, None, None, 0)

StoreOps ==
    { StoreOp("add_conversation", "agent1_coder", "assistant", "c1", 0),
      StoreOp("add_decision", "agent3_doctor", "d1", "r1", 0),
      StoreOp("add_bug", "agent1_coder", "b1", None, 0),
      StoreOp("add_bug", "agent2_improver", "b2", None, 0),
      StoreOp("add_solution", "agent2_improver", "s1", None, 0),
      StoreOp("update_agent_state", "agent1_coder", "coding", "T", 0),
      StoreOp("update_agent_state", "agent2_improver", "monitoring", None, 0),
      StoreOp("add_user_context", "user_input", "u1", None, 0),
      StoreOp("register_spawned_agent", "agent1_coder", None, "T", 101) }

OnContext(o) == o.op = "add_user_context"

\* The dict a handler writes back, from the dict it has read.
Modify(o, d) ==
    CASE o.op = "add_conversation" -> add_conversation(d, o.a1, o.a2, o.a3)
      [] o.op = "add_decision" -> add_decision(d, o.a1, o.a2, o.a3)
      [] o.op = "add_bug" -> add_bug(d, o.a1, o.a2)
      [] o.op = "add_solution" -> add_solution(d, o.a1, o.n, o.a2)
      [] o.op = "update_agent_state" -> update_agent_state(d, o.a1, o.a2, o.a3)
      [] o.op = "register_spawned_agent" ->
            register_spawned_agent(d, o.a1, o.n, o.a3)
      [] o.op = "add_user_context" -> add_user_context(d, o.a1, o.a2)
      [] OTHER -> d

Raises(o, d) == o.op = "add_solution" /\ add_solution_raises(d, o.n)

wsOf_OneDirectory(t) == "default"

\* The workspace of the SharedMemory instance a thread calls through.
wsOf(t) == instWs[instOf[t]]

Finish(t, outcome) ==
    /\ hist' = [hist EXCEPT ![t] = Append(@, [op |-> cur[t], outcome |-> outcome])]
    /\ pc' = [pc EXCEPT ![t] = "idle"]
    /\ cur' = [cur EXCEPT ![t] = NoOp]
    /\ local' = [local EXCEPT ![t] = None]

\* A caller enters one of the mutating operations.
BeginOp(t) ==
    /\ pc[t] = "idle"
    /\ Len(hist[t]) < MaxOpsPerThread
    /\ \E o \in StoreOps : cur' = [cur EXCEPT ![t] = o]
    /\ pc' = [pc EXCEPT ![t] = "read"]
    /\ UNCHANGED <<storeVars, instOf, instWs, lock, local, wdirty, hist>>

\* _read_json: with self.lock: json.load(open(file)); then the handler
\* changes the dict it got. A truncated file makes json.load raise.
ReadJson(t) ==
    /\ pc[t] = "read"
    /\ lock[instOf[t]] = 0
    /\ LET f == IF OnContext(cur[t]) THEN context_file[wsOf(t)]
                ELSE memory_file[wsOf(t)]
       IN  IF f.ok /\ ~Raises(cur[t], f.data)
           THEN /\ local' = [local EXCEPT ![t] = Modify(cur[t], f.data)]
                /\ pc' = [pc EXCEPT ![t] = "write"]
                /\ UNCHANGED <<cur, hist>>
           ELSE Finish(t, "raised")
    /\ UNCHANGED <<storeVars, instOf, instWs, lock, wdirty>>

Truncated(f) == [f EXCEPT !.ok = FALSE]

\* _write_json, first half: self.lock is taken and open(file, 'w')
\* truncates the file.
WriteOpen(t) ==
    /\ pc[t] = "write"
    /\ lock[instOf[t]] = 0
    /\ lock' = [lock EXCEPT ![instOf[t]] = t]
    /\ IF OnContext(cur[t])
       THEN /\ context_file' = [context_file EXCEPT ![wsOf(t)] = Truncated(@)]
            /\ UNCHANGED memory_file
       ELSE /\ memory_file' = [memory_file EXCEPT ![wsOf(t)] = Truncated(@)]
            /\ UNCHANGED context_file
    /\ pc' = [pc EXCEPT ![t] = "writing"]
    /\ wdirty' = [wdirty EXCEPT ![t] = FALSE]
    /\ UNCHANGED <<log_file, instOf, instWs, cur, local, hist>>

\* Writers of the same file, through another instance, that are between
\* their open and their close.
OpenWriters(t) ==
    { u \in Threads \ {t} :
        /\ pc[u] = "writing"
        /\ wsOf(u) = wsOf(t)
        /\ OnContext(cur[u]) = OnContext(cur[t]) }

\* _write_json, second half: json.dump reaches the file at close and the
\* lock is released. When another writer closed the same file in between,
\* the bytes written from offset 0 may leave the tail of the other
\* writer's longer text behind: the file is then no JSON text.
WriteClose(t) ==
    /\ pc[t] = "writing"
    /\ lock[instOf[t]] = t
    /\ \E intact \in (IF wdirty[t] THEN BOOLEAN ELSE {TRUE}) :
          LET f == [ok |-> intact, data |-> local[t]]
          IN  IF OnContext(cur[t])
              THEN /\ context_file' = [context_file EXCEPT ![wsOf(t)] = f]
                   /\ UNCHANGED memory_file
              ELSE /\ memory_file' = [memory_file EXCEPT ![wsOf(t)] = f]
                   /\ UNCHANGED context_file
    /\ lock' = [lock EXCEPT ![instOf[t]] = 0]
    /\ wdirty' = [u \in Threads |-> IF u \in OpenWriters(t) THEN TRUE ELSE wdirty[u]]
    /\ Finish(t, "ok")
    /\ UNCHANGED <<log_file, instOf, instWs>>

InitFiles ==
    /\ memory_file = [w \in Workspaces |-> [ok |-> TRUE, data |-> InitialMemory(w)]]
    /\ context_file = [w \in Workspaces |-> [ok |-> TRUE, data |-> InitialContext]]
    /\ log_file = [w \in Workspaces |-> <<>>]

\* Thread 1 calls through instance 1, on workspace "default"; thread 2
\* through the same instance, or through a second instance opened on the
\* same workspace or on another one.
InitThreads ==
    /\ instOf \in {[t \in Threads |-> 1], [t \in Threads |-> t]}
    /\ instWs \in {[i \in Instances |-> "default"],
                   [i \in Instances |-> IF i = 1 THEN "default" ELSE "other"]}
    /\ (instOf[2] = 1) => (instWs[2] = "default")
    /\ lock = [i \in Instances |-> 0]
    /\ pc = [t \in Threads |-> "idle"]
    /\ cur = [t \in Threads |-> NoOp]
    /\ local = [t \in Threads |-> None]
    /\ wdirty = [t \in Threads |-> FALSE]
    /\ hist = [t \in Threads |-> <<>>]

\* ------------------------------------------------ core/spawner.py: state
Spawners == {1, 2}

\* TriAgentSpawner(workspace_id): each spawner on a workspace of its own.
spawner_workspace(s) == IF s = 1 THEN "default" ELSE "other"

max_teams == 10

\* team_id = f"team_{uuid.uuid4().hex[:8]}": the k-th fresh id of an owner.
TeamId(owner, k) == owner * 100 + k

\* The value of a call that returns no team id (Python None).
NoTeam == 0

NoCall == [op |-> "none", spawner |-> 0, arg |-> NoTeam, result |-> NoTeam]

InitSpawners ==
    /\ spawned_teams = [s \in Spawners |-> <<>>]
    /\ team_configs = <<>>
    /\ uuid_count = [s \in Spawners |-> 0]
    /\ terminations = 0
    /\ last_call = NoCall
    /\ sp_pc = [t \in Threads |-> "idle"]
    /\ sp_team = [t \in Threads |-> NoTeam]
    /\ sp_local = [t \in Threads |-> None]

\* No thread is inside a store operation (the other components' view).
InitNoThreads ==
    /\ instOf = [t \in Threads |-> 1]
    /\ instWs = [i \in Instances |-> "default"]
    /\ lock = [i \in Instances |-> 0]
    /\ pc = [t \in Threads |-> "idle"]
    /\ cur = [t \in Threads |-> NoOp]
    /\ local = [t \in Threads |-> None]
    /\ wdirty = [t \in Threads |-> FALSE]
    /\ hist = [t \in Threads |-> <<>>]

\* ---------------------------------- core/inference_layer.py: the state
\* The names providers report. get_name() is built from the model or the
\* URL of a provider, so two providers of one layer may report one name.
ProviderNamePool ==
    <<"Ollama (qwen3:8b)", "vLLM (https://a)", "LiteLLM (https://b)",
      "DigitalOcean (https://c)", "vLLM (https://d)">>

Max(S) == CHOOSE x \in S : \A y \in S : y <= x

\* The name patterns of n providers, up to renaming: the first provider
\* reports the first name, each later one a name already reported or the
\* next unused one.
NamePatterns(n) ==
    {f \in [1..n -> 1..n] :
        /\ f[1] = 1
        /\ \A k \in 2..n : f[k] <= 1 + Max({f[j] : j \in 1..(k - 1)})}

NoResult ==
    [kind |-> "none", index |-> 0, response |-> 0, provider |-> None,
     fallback_used |-> FALSE]

Untried(before) ==
    [probes |-> 0, attempts |-> 0, outcome |-> "untried", before |-> before]

\* InferenceLayer.__init__(primary_provider, backup_providers)
InitInference ==
    /\ \E n \in 1..MaxProviders : \E f \in NamePatterns(n) :
          provider_names = [k \in 1..n |-> ProviderNamePool[f[k]]]
    /\ provider_failures =
          [nm \in {provider_names[k] : k \in DOMAIN provider_names} |-> 0]
    /\ gen_pc = "idle"
    /\ gen_i = 0
    /\ gen_result = NoResult
    /\ gen_calls = 0
    /\ gen_trace = [k \in DOMAIN provider_names |-> Untried(0)]
    /\ own_failures = [k \in DOMAIN provider_names |-> 0]

\* A layer with the single default provider, never called (the other
\* components' view).
InitNoInference ==
    /\ provider_names = <<ProviderNamePool[1]>>
    /\ provider_failures = [nm \in {ProviderNamePool[1]} |-> 0]
    /\ gen_pc = "idle"
    /\ gen_i = 0
    /\ gen_result = NoResult
    /\ gen_calls = 0
    /\ gen_trace = [k \in {1} |-> Untried(0)]
    /\ own_failures = [k \in {1} |-> 0]

\* ------------------------------ core/spawner.py: the complexity assessor
\* A task descriptor. declared: the keys the dict holds; estimated_hours is
\* kept in tenths of an hour (0.5 h = 5).
SubtaskPool == <<"A", "B", "C", "D", "E", "F", "G", "H", "I", "J">>
DependencyPool == <<"Database", "API", "Frontend", "Docker", "K8s", "Redis", "Queue">>
HoursValues == {5, 40, 80, 100}
Difficulties == {"low", "medium", "high"}
TaskKeys == {"subtasks", "estimated_hours", "dependencies", "difficulty"}

Task(subtasks, hours, dependencies, difficulty, declared) ==
    [subtasks |-> subtasks, estimated_hours |-> hours,
     dependencies |-> dependencies, difficulty |-> difficulty,
     declared |-> declared]

\* The descriptors enumerated: every key declared; descriptors of every
\* subtask count, and the largest descriptor, with one key left out; the
\* empty dict.
TaskDescriptors ==
    {Task(SubSeq(SubtaskPool, 1, n), h, SubSeq(DependencyPool, 1, d), df, TaskKeys) :
        n \in 0..MaxSubtasks, h \in HoursValues, d \in 0..MaxDependencies,
        df \in Difficulties}
    \cup
    {Task(SubSeq(SubtaskPool, 1, n), 5, <<>>, "low", TaskKeys \ {k}) :
        n \in 0..MaxSubtasks, k \in TaskKeys}
    \cup
    {Task(SubSeq(SubtaskPool, 1, MaxSubtasks), 100,
          SubSeq(DependencyPool, 1, MaxDependencies), "high", TaskKeys \ {k}) :
        k \in TaskKeys}
    \cup {Task(<<>>, 0, <<>>, "low", {})}

\* task.get(key, default)
Get(task, key, default) ==
    IF key \in task.declared THEN task[key] ELSE default

ComplexityScore_HoursInclusive(task) ==
    LET subtasks == Get(task, "subtasks", <<>>)
        duration_hours == Get(task, "estimated_hours", 0)
        dependencies == Get(task, "dependencies", <<>>)
        difficulty == Get(task, "difficulty", "medium")
    IN  Len(subtasks)
        + (IF duration_hours >= 8 * 10 THEN 2
           ELSE IF duration_hours >= 4 * 10 THEN 1 ELSE 0)
        + Len(dependencies)
        + (IF difficulty = "high" THEN 3
           ELSE IF difficulty = "medium" THEN 1 ELSE 0)

\* complexity_score after the four factors (lines 37-59).
ComplexityScore(task) ==
    LET subtasks == Get(task, "subtasks", <<>>)
        duration_hours == Get(task, "estimated_hours", 0)
        dependencies == Get(task, "dependencies", <<>>)
        difficulty == Get(task, "difficulty", "medium")
    IN  Len(subtasks)
        + (IF duration_hours > 8 * 10 THEN 2
           ELSE IF duration_hours > 4 * 10 THEN 1 ELSE 0)
        + Len(dependencies)
        + (IF difficulty = "high" THEN 3
           ELSE IF difficulty = "medium" THEN 1 ELSE 0)

TeamsNeeded_BandsSwapped(complexity_score) ==
    IF complexity_score <= 3 THEN 0
    ELSE IF complexity_score <= 7 THEN 2
    ELSE IF complexity_score <= 12 THEN 1
    ELSE 3

\* The number of teams for a score (lines 67-74).
TeamsNeeded(complexity_score) ==
    IF complexity_score <= 3 THEN 0
    ELSE IF complexity_score <= 7 THEN 1
    ELSE IF complexity_score <= 12 THEN 2
    ELSE 3

assess_task_complexity(task) == TeamsNeeded(ComplexityScore(task))

NoAssessment ==
    [made |-> FALSE, task |-> Task(<<>>, 0, <<>>, "low", {}), score |-> 0, teams |-> 0]

InitAssessor ==
    /\ assess_last = NoAssessment
    /\ assess_prev = NoAssessment

\* No sequential caller has called yet.
NoTaskCall ==
    [made |-> FALSE, count |-> 0, spawner |-> 0, task |-> NoAssessment.task,
     active_before |-> 0, records_before |-> 0, result |-> <<>>]

NoStoreCall == [op |-> "none", count |-> 0, updated |-> {}]

\* Agent1Coder.__init__, Agent2Improver.__init__, Agent3Doctor.__init__
InitialAgentObjects ==
    [current_task |-> None, needs_help |-> FALSE, is_substituting |-> FALSE,
     interventions |-> 0]

NoOrchCall == [op |-> "none", count |-> 0]

BreakCallers == {1, 2}

InitCallers ==
    /\ task_call = NoTaskCall
    /\ store_call = NoStoreCall
    /\ agent_objs = InitialAgentObjects
    /\ orch_call = NoOrchCall
    /\ break_pc = [c \in BreakCallers |-> "idle"]

InitStore ==
    /\ InitFiles /\ InitThreads /\ InitSpawners /\ InitNoInference
    /\ InitAssessor /\ InitCallers

InitSpawn ==
    /\ InitFiles /\ InitNoThreads /\ InitSpawners /\ InitNoInference
    /\ InitAssessor /\ InitCallers

InitInfer ==
    /\ InitFiles /\ InitNoThreads /\ InitSpawners /\ InitInference
    /\ InitAssessor /\ InitCallers

NextStore ==
    \E t \in Threads :
        \/ BeginOp(t) /\ UNCHANGED exceptStoreThreads
        \/ ReadJson(t) /\ UNCHANGED exceptStoreThreads
        \/ WriteOpen(t) /\ UNCHANGED exceptStoreThreads
        \/ WriteClose(t) /\ UNCHANGED exceptStoreThreads

SpecStore == InitStore /\ [][NextStore]_vars

\* ------------------------------------- core/spawner.py: sequential calls
SpawnTasks == {"A"}
ParentIds == {"agent1_coder"}

\* self.memory.log(agent_id, message): one line appended to the log file.
log(w, agent_id, text, team, task) ==
    [log_file EXCEPT ![w] =
        Append(@, LogLine(agent_id, [text |-> text, team |-> team, task |-> task],
                          "INFO"))]

TeamConfig(s, team_id, task, parent_agent_id) ==
    [team_id |-> team_id,
     parent_workspace |-> spawner_workspace(s),
     workspace |-> <<spawner_workspace(s), team_id>>,
     task |-> task,
     spawned_by |-> parent_agent_id,
     agents |-> [agent1_coder |-> [status |-> "active"],
                 agent2_improver |-> [status |-> "monitoring"],
                 agent3_doctor |-> [status |-> "standby"]]]

MaxTeamsReached_OffByOne(s) == Len(spawned_teams[s]) > max_teams

\* The admission test of spawn_tri_agent_team.
MaxTeamsReached(s) == Len(spawned_teams[s]) >= max_teams

\* spawn_tri_agent_team(task, parent_agent_id), run to completion.
SpawnTeam(s) ==
    \E task \in SpawnTasks, parent \in ParentIds :
      LET w == spawner_workspace(s)
          team_id == TeamId(s, uuid_count[s] + 1)
      IN
      IF MaxTeamsReached(s)
      THEN /\ last_call' = [op |-> "spawn", spawner |-> s, arg |-> NoTeam,
                            result |-> NoTeam]
           /\ UNCHANGED <<storeVars, spawned_teams, team_configs, uuid_count,
                          terminations>>
      ELSE /\ uuid_count[1] + uuid_count[2] < MaxTeamIds
           /\ memory_file[w].ok
           /\ uuid_count' = [uuid_count EXCEPT ![s] = @ + 1]
           /\ memory_file' = [memory_file EXCEPT ![w].data =
                                 register_spawned_agent(@, parent, team_id, task)]
           /\ team_configs' =
                 (team_id :> TeamConfig(s, team_id, task, parent)) @@ team_configs
           /\ spawned_teams' = [spawned_teams EXCEPT ![s] = Append(@, team_id)]
           /\ log_file' = log(w, "spawner", "Spawned tri-agent team", team_id, task)
           /\ last_call' = [op |-> "spawn", spawner |-> s, arg |-> NoTeam,
                            result |-> team_id]
           /\ UNCHANGED <<context_file, terminations>>

Remove_DropsLast(seq, x) == SubSeq(seq, 1, Len(seq) - 1)

\* list.remove(x): the first occurrence of x is removed.
Remove(seq, x) ==
    LET i == CHOOSE k \in 1..Len(seq) :
                 seq[k] = x /\ \A j \in 1..(k - 1) : seq[j] # x
    IN  SubSeq(seq, 1, i - 1) \o SubSeq(seq, i + 1, Len(seq))

InList(seq, x) == \E k \in 1..Len(seq) : seq[k] = x

\* The team ids a caller may pass: those generated so far, and an unknown one.
KnownTeamIds == {TeamId(s, k) : s \in Spawners, k \in 1..MaxTeamIds}
TeamIdInputs(s) ==
    {id \in KnownTeamIds : id \in DOMAIN team_configs} \cup {TeamId(s, 0)}

\* terminate_team(team_id), run to completion.
TerminateTeam(s) ==
    \E team_id \in TeamIdInputs(s) :
      /\ terminations < MaxTerminations
      /\ terminations' = terminations + 1
      /\ log_file' = log(spawner_workspace(s), "spawner",
                         "Terminating tri-agent team", team_id, None)
      /\ spawned_teams' =
            IF InList(spawned_teams[s], team_id)
            THEN [spawned_teams EXCEPT ![s] = Remove(@, team_id)]
            ELSE spawned_teams
      /\ last_call' = [op |-> "terminate", spawner |-> s, arg |-> team_id,
                       result |-> NoTeam]
      /\ UNCHANGED <<memory_file, context_file, team_configs, uuid_count>>

NextSpawn ==
    \E s \in Spawners :
        \/ SpawnTeam(s) /\ UNCHANGED exceptSpawner
        \/ TerminateTeam(s) /\ UNCHANGED exceptSpawner

SpecSpawn == InitSpawn /\ [][NextSpawn]_vars

\* ----------------- core/spawner.py: concurrent spawn_tri_agent_team calls
\* Two threads call spawn_tri_agent_team of spawner 1; each statement that
\* reads or writes shared state is a step. Team ids are owned by the thread.
TheSpawner == 1

\* Thread 1 makes the bulk of the calls; thread 2 races it with a few.
CallBudget(t) == IF t = 1 THEN MaxTeamIds ELSE MaxRacingCalls

\* if len(self.spawned_teams) >= self.max_teams: return None; team_id = ...
SpCheck(t) ==
    /\ sp_pc[t] = "idle"
    /\ IF MaxTeamsReached(TheSpawner)
       THEN /\ last_call' = [op |-> "spawn", spawner |-> TheSpawner,
                             arg |-> NoTeam, result |-> NoTeam]
            /\ UNCHANGED <<uuid_count, sp_pc, sp_team>>
       ELSE /\ uuid_count[1] + uuid_count[2] < MaxTeamIds
            /\ uuid_count[t] < CallBudget(t)
            /\ uuid_count' = [uuid_count EXCEPT ![t] = @ + 1]
            /\ sp_team' = [sp_team EXCEPT ![t] = TeamId(t, uuid_count[t] + 1)]
            /\ sp_pc' = [sp_pc EXCEPT ![t] = "register_read"]
            /\ UNCHANGED last_call
    /\ UNCHANGED <<storeVars, spawned_teams, team_configs, terminations, sp_local>>

\* register_spawned_agent: memory = self._read_json(...); append.
SpRegisterRead(t) ==
    \E task \in SpawnTasks, parent \in ParentIds :
      /\ sp_pc[t] = "register_read"
      /\ memory_file[spawner_workspace(TheSpawner)].ok
      /\ sp_local' = [sp_local EXCEPT ![t] =
            register_spawned_agent(memory_file[spawner_workspace(TheSpawner)].data,
                                   parent, sp_team[t], task)]
      /\ sp_pc' = [sp_pc EXCEPT ![t] = "register_write"]
      /\ UNCHANGED <<storeVars, spawnVars, sp_team>>

\* register_spawned_agent: self._write_json(...); then config.json of the
\* new team is written (a file no other call touches).
SpRegisterWrite(t) ==
    /\ sp_pc[t] = "register_write"
    /\ memory_file' = [memory_file EXCEPT
          ![spawner_workspace(TheSpawner)] = [ok |-> TRUE, data |-> sp_local[t]]]
    /\ LET rec == sp_local[t].spawned_agents[Len(sp_local[t].spawned_agents)]
       IN  team_configs' =
             (sp_team[t] :> TeamConfig(TheSpawner, sp_team[t], rec.task, rec.parent_id))
                @@ team_configs
    /\ sp_local' = [sp_local EXCEPT ![t] = None]
    /\ sp_pc' = [sp_pc EXCEPT ![t] = "append"]
    /\ UNCHANGED <<context_file, log_file, spawned_teams, uuid_count,
                   terminations, last_call, sp_team>>

\* self.spawned_teams.append(team_id)
SpAppend(t) ==
    /\ sp_pc[t] = "append"
    /\ spawned_teams' = [spawned_teams EXCEPT ![TheSpawner] = Append(@, sp_team[t])]
    /\ sp_pc' = [sp_pc EXCEPT ![t] = "log"]
    /\ UNCHANGED <<storeVars, team_configs, uuid_count, terminations, last_call,
                   sp_team, sp_local>>

\* self.memory.log(...); return team_id
SpLog(t) ==
    /\ sp_pc[t] = "log"
    /\ log_file' = log(spawner_workspace(TheSpawner), "spawner",
                       "Spawned tri-agent team", sp_team[t],
                       team_configs[sp_team[t]].task)
    /\ last_call' = [op |-> "spawn", spawner |-> TheSpawner, arg |-> NoTeam,
                     result |-> sp_team[t]]
    /\ sp_pc' = [sp_pc EXCEPT ![t] = "idle"]
    /\ sp_team' = [sp_team EXCEPT ![t] = NoTeam]
    /\ UNCHANGED <<memory_file, context_file, spawned_teams, team_configs,
                   uuid_count, terminations, sp_local>>

NextSpawnConc ==
    \E t \in Threads :
        \/ SpCheck(t) /\ UNCHANGED exceptSpawnThreads
        \/ SpRegisterRead(t) /\ UNCHANGED exceptSpawnThreads
        \/ SpRegisterWrite(t) /\ UNCHANGED exceptSpawnThreads
        \/ SpAppend(t) /\ UNCHANGED exceptSpawnThreads
        \/ SpLog(t) /\ UNCHANGED exceptSpawnThreads

SpecSpawnConc == InitSpawn /\ [][NextSpawnConc]_vars

\* ------------------------------ core/inference_layer.py: generate
NumProviders == Len(provider_names)

\* The text provider k's generate returns.
ResponseOf(k) == k

\* self.provider_failures[provider.get_name()] += 1
CountFailure(k) ==
    [provider_failures EXCEPT ![provider_names[k]] = @ + 1]

\* self.provider_failures[provider.get_name()] = 0
ResetFailures(k) ==
    [provider_failures EXCEPT ![provider_names[k]] = 0]

\* continue: the loop moves to the next provider; after the last one the
\* call raises Exception("All inference providers failed").
Continue ==
    IF gen_i < NumProviders
    THEN /\ gen_i' = gen_i + 1
         /\ gen_pc' = "probe"
         /\ UNCHANGED gen_result
    ELSE /\ gen_i' = 0
         /\ gen_pc' = "idle"
         /\ gen_result' = [NoResult EXCEPT !.kind = "raised"]

\* A caller enters generate: the loop starts at the primary.
GenerateBegin ==
    /\ gen_pc = "idle"
    /\ gen_calls < MaxGenerateCalls
    /\ gen_calls' = gen_calls + 1
    /\ gen_i' = 1
    /\ gen_pc' = "probe"
    /\ gen_result' = NoResult
    /\ gen_trace' = [k \in DOMAIN provider_names |->
                        Untried(provider_failures[provider_names[k]])]
    /\ UNCHANGED <<provider_names, provider_failures, own_failures>>

\* if not provider.is_available(): count the failure and continue.
Probe ==
    /\ gen_pc = "probe"
    /\ \E live \in BOOLEAN :
          IF live
          THEN /\ gen_trace' = [gen_trace EXCEPT ![gen_i].probes = @ + 1]
               /\ gen_pc' = "generate"
               /\ UNCHANGED <<provider_failures, own_failures, gen_i, gen_result>>
          ELSE /\ gen_trace' = [gen_trace EXCEPT ![gen_i].probes = @ + 1,
                                                 ![gen_i].outcome = "unavailable"]
               /\ provider_failures' = CountFailure(gen_i)
               /\ own_failures' = [own_failures EXCEPT ![gen_i] = @ + 1]
               /\ Continue
    /\ UNCHANGED <<provider_names, gen_calls>>

\* try: response = provider.generate(...); reset the count and return;
\* except: count the failure and continue.
Generate ==
    /\ gen_pc = "generate"
    /\ \E succeeds \in BOOLEAN :
          IF succeeds
          THEN /\ gen_trace' = [gen_trace EXCEPT ![gen_i].attempts = @ + 1,
                                                 ![gen_i].outcome = "succeeded"]
               /\ provider_failures' = ResetFailures(gen_i)
               /\ own_failures' = [own_failures EXCEPT ![gen_i] = 0]
               /\ gen_result' = [kind |-> "returned",
                                 index |-> gen_i,
                                 response |-> ResponseOf(gen_i),
                                 provider |-> provider_names[gen_i],
                                 fallback_used |-> (gen_i # 1)]
               /\ gen_i' = 0
               /\ gen_pc' = "idle"
          ELSE /\ gen_trace' = [gen_trace EXCEPT ![gen_i].attempts = @ + 1,
                                                 ![gen_i].outcome = "threw"]
               /\ provider_failures' = CountFailure(gen_i)
               /\ own_failures' = [own_failures EXCEPT ![gen_i] = @ + 1]
               /\ Continue
    /\ UNCHANGED <<provider_names, gen_calls>>

NextInfer ==
    \/ GenerateBegin /\ UNCHANGED exceptInference
    \/ Probe /\ UNCHANGED exceptInference
    \/ Generate /\ UNCHANGED exceptInference

SpecInfer == InitInfer /\ [][NextInfer]_vars

\* ------------------------- core/spawner.py: assess_task_complexity calls
\* A caller assesses a task descriptor; the call before it is remembered.
Assess ==
    \E task \in TaskDescriptors :
      /\ assess_prev' = [assess_last EXCEPT !.task = NoAssessment.task]
      /\ assess_last' = [made |-> TRUE, task |-> task,
                         score |-> ComplexityScore(task),
                         teams |-> assess_task_complexity(task)]

NextAssess == Assess /\ UNCHANGED exceptAssessor

SpecAssess == InitSpawn /\ [][NextAssess]_vars

\* ------------- core/spawner.py: assess_task_complexity on a live spawner
\* The descriptors a caller hands to a spawner in use.
TaskInputs ==
    { Task(<<>>, 5, <<>>, "low", TaskKeys),
      Task(<<"A", "B", "C">>, 5, <<>>, "medium", TaskKeys),
      Task(<<"A", "B", "C", "D">>, 100, <<"Database", "API">>, "high", TaskKeys),
      Task(<<>>, 100, <<"Database", "API", "Frontend">>, "high",
           TaskKeys \ {"subtasks"}),
      Task(<<"A", "B">>, 100, SubSeq(DependencyPool, 1, 6), "high", TaskKeys) }

\* Those of them a caller has assessed on their own.
AssessInputs ==
    {task \in TaskInputs :
        "subtasks" \in task.declared /\ Len(task.dependencies) <= 2}

AssessOn_ReadsRegistry(s) ==
    \E task \in AssessInputs :
      /\ assess_prev' = assess_last
      /\ assess_last' = [made |-> TRUE, task |-> task,
                         score |-> ComplexityScore(task) + Len(spawned_teams[s]),
                         teams |-> TeamsNeeded(ComplexityScore(task)
                                               + Len(spawned_teams[s])),
                         spawner |-> s, full |-> MaxTeamsReached(s)]

\* spawner s .assess_task_complexity(task), with the spawner it was called
\* on and whether that spawner's registry was full at the call.
AssessOn(s) ==
    \E task \in AssessInputs :
      /\ assess_prev' = assess_last
      /\ assess_last' = [made |-> TRUE, task |-> task,
                         score |-> ComplexityScore(task),
                         teams |-> assess_task_complexity(task),
                         spawner |-> s, full |-> MaxTeamsReached(s)]

NextAssessAny ==
    \E s \in Spawners :
        \/ SpawnTeam(s) /\ UNCHANGED exceptSpawner
        \/ AssessOn(s) /\ UNCHANGED exceptAssessor

SpecAssessAny == InitSpawn /\ [][NextAssessAny]_vars

\* ------------------------------------ core/spawner.py: spawn_for_task
\* What spawn_tri_agent_team reads and writes, as one value: the memory
\* dict, the registry, the team descriptors, the ids generated, the log, and
\* the ids returned so far to spawn_for_task.
SpawnerState(s) ==
    [mem |-> memory_file[spawner_workspace(s)].data,
     teams |-> spawned_teams[s],
     configs |-> team_configs,
     uuid |-> uuid_count[s],
     log |-> log_file[spawner_workspace(s)],
     ids |-> <<>>]

spawn_tri_agent_team_OffByOne(st, s, task, parent_agent_id) ==
    IF Len(st.teams) > max_teams
    THEN st
    ELSE LET team_id == TeamId(s, st.uuid + 1)
         IN  [mem |-> register_spawned_agent(st.mem, parent_agent_id, team_id, task),
              teams |-> Append(st.teams, team_id),
              configs |-> (team_id :> TeamConfig(s, team_id, task, parent_agent_id))
                             @@ st.configs,
              uuid |-> st.uuid + 1,
              log |-> Append(st.log,
                        LogLine("spawner",
                                [text |-> "Spawned tri-agent team",
                                 team |-> team_id, task |-> task], "INFO")),
              ids |-> Append(st.ids, team_id)]

\* spawn_tri_agent_team(task, parent_agent_id) inside spawn_for_task: None
\* (nothing changed, no id collected) when the registry is full.
spawn_tri_agent_team(st, s, task, parent_agent_id) ==
    IF Len(st.teams) >= max_teams
    THEN st
    ELSE LET team_id == TeamId(s, st.uuid + 1)
         IN  [mem |-> register_spawned_agent(st.mem, parent_agent_id, team_id, task),
              teams |-> Append(st.teams, team_id),
              configs |-> (team_id :> TeamConfig(s, team_id, task, parent_agent_id))
                             @@ st.configs,
              uuid |-> st.uuid + 1,
              log |-> Append(st.log,
                        LogLine("spawner",
                                [text |-> "Spawned tri-agent team",
                                 team |-> team_id, task |-> task], "INFO")),
              ids |-> Append(st.ids, team_id)]

\* f"Parallel work {i+1}"
ParallelWork(n) ==
    CASE n = 1 -> "Parallel work 1"
      [] n = 2 -> "Parallel work 2"
      [] n = 3 -> "Parallel work 3"
      [] OTHER -> "Parallel work n"

SubtaskFor_ZeroBased(task, i) ==
    IF i < Len(Get(task, "subtasks", <<>>))
    THEN Get(task, "subtasks", <<>>)[i + 1]
    ELSE ParallelWork(i)

\* The task of loop iteration i (from 0): subtasks[i], or the placeholder.
SubtaskFor(task, i) ==
    IF i < Len(Get(task, "subtasks", <<>>))
    THEN Get(task, "subtasks", <<>>)[i + 1]
    ELSE ParallelWork(i + 1)

\* for i in range(teams_needed): spawn, and collect the id when there is one.
RECURSIVE spawn_loop(_, _, _, _, _, _)
spawn_loop(st, s, task, parent_agent_id, i, teams_needed) ==
    IF i >= teams_needed
    THEN st
    ELSE spawn_loop(spawn_tri_agent_team(st, s, SubtaskFor(task, i), parent_agent_id),
                    s, task, parent_agent_id, i + 1, teams_needed)

spawn_for_task(st, s, task, parent_agent_id) ==
    LET teams_needed == assess_task_complexity(task)
    IN  IF teams_needed = 0
        THEN st
        ELSE spawn_loop(st, s, task, parent_agent_id, 0, teams_needed)

\* spawn_for_task(task, parent_agent_id) on spawner s, run to completion.
SpawnForTask(s) ==
    \E task \in TaskInputs, parent \in ParentIds :
      LET w == spawner_workspace(s)
          st == spawn_for_task(SpawnerState(s), s, task, parent)
      IN  /\ task_call.count < MaxTaskCalls
          /\ uuid_count[1] + uuid_count[2] + Len(st.ids) <= MaxTeamIds
          /\ memory_file[w].ok
          /\ memory_file' = [memory_file EXCEPT ![w].data = st.mem]
          /\ log_file' = [log_file EXCEPT ![w] = st.log]
          /\ spawned_teams' = [spawned_teams EXCEPT ![s] = st.teams]
          /\ team_configs' = st.configs
          /\ uuid_count' = [uuid_count EXCEPT ![s] = st.uuid]
          /\ task_call' =
                [made |-> TRUE, count |-> task_call.count + 1, spawner |-> s,
                 task |-> task,
                 active_before |-> Len(spawned_teams[s]),
                 records_before |-> Len(memory_file[w].data.spawned_agents),
                 result |-> st.ids]
          /\ UNCHANGED <<context_file, terminations, last_call, store_call>>

exceptTaskCaller == <<procVars, spawnThreadVars, inferVars, assessVars, orchVars>>

NextSpawnTask ==
    \E s \in Spawners :
        \/ SpawnTeam(s) /\ UNCHANGED exceptSpawner
        \/ SpawnForTask(s) /\ UNCHANGED exceptTaskCaller

SpecSpawnTask == InitSpawn /\ [][NextSpawnTask]_vars

\* ------------------------- shared/memory.py: calls of a sequential caller
\* One caller uses one SharedMemory instance of workspace "default"; every
\* call runs to completion.
LedgerWorkspace == "default"

\* The agent ids a caller asks about: the three fixed roles and one more.
AgentIdInputs == AgentIds \cup {"agent4_tester"}

\* bug_id: int
BugIdInputs == (0 - 1)..MaxBugId

\* The empty dict {}.
EmptyDict == [k \in {} |-> None]

\* memory["agent_states"].get(agent_id, {})
get_agent_state(m, agent_id) ==
    IF agent_id \in DOMAIN m.agent_states
    THEN m.agent_states[agent_id]
    ELSE EmptyDict

\* seq[start:] of a Python list.
PySliceFrom(seq, start) ==
    LET L == Len(seq)
        from == IF start < 0
                THEN (IF L + start < 0 THEN 0 ELSE L + start)
                ELSE (IF start > L THEN L ELSE start)
    IN  SubSeq(seq, from + 1, L)

\* f.readlines()[-lines:]; a log file that does not exist yet gives [].
read_logs(logseq, lines) ==
    PySliceFrom(logseq, 0 - lines)

\* The record of a mutating call.
Mutation(op, arg, raised) ==
    [op |-> op, count |-> store_call.count + 1, updated |-> store_call.updated,
     arg |-> arg, raised |-> raised]

LedgerMemory == memory_file[LedgerWorkspace].data

AddBug ==
    /\ store_call.count < MaxStoreCalls
    /\ memory_file' = [memory_file EXCEPT ![LedgerWorkspace].data =
          add_bug(@, "agent1_coder", "bug")]
    /\ store_call' = Mutation("add_bug", 0, FALSE)
    /\ UNCHANGED <<context_file, log_file>>

\* add_solution(agent_id, bug_id, solution): an IndexError leaves the file
\* as it was (the dict changed is never written).
AddSolution ==
    \E bug_id \in BugIdInputs :
      /\ store_call.count < MaxStoreCalls
      /\ IF add_solution_raises(LedgerMemory, bug_id)
         THEN /\ store_call' = Mutation("add_solution", bug_id, TRUE)
              /\ UNCHANGED memory_file
         ELSE /\ store_call' = Mutation("add_solution", bug_id, FALSE)
              /\ memory_file' = [memory_file EXCEPT ![LedgerWorkspace].data =
                    add_solution(@, "agent2_improver", bug_id, "fix")]
      /\ UNCHANGED <<context_file, log_file>>

UpdateAgentState ==
    \E agent_id \in {"agent1_coder", "agent4_tester"} :
      /\ store_call.count < MaxStoreCalls
      /\ memory_file' = [memory_file EXCEPT ![LedgerWorkspace].data =
            update_agent_state(@, agent_id, "coding", "T")]
      /\ store_call' = [Mutation("update_agent_state", 0, FALSE)
                           EXCEPT !.updated = @ \cup {agent_id}]
      /\ UNCHANGED <<context_file, log_file>>

\* log(agent_id, message): one line appended; the lines are numbered here to
\* tell them apart.
Log ==
    /\ store_call.count < MaxStoreCalls
    /\ log_file' = [log_file EXCEPT ![LedgerWorkspace] =
          Append(@, LogLine("agent1_coder", Len(@) + 1, "INFO"))]
    /\ store_call' = Mutation("log", 0, FALSE)
    /\ UNCHANGED <<memory_file, context_file>>

GetAgentState ==
    \E agent_id \in AgentIdInputs :
      /\ store_call' = [op |-> "get_agent_state", count |-> store_call.count,
                        updated |-> store_call.updated, arg |-> agent_id,
                        result |-> get_agent_state(LedgerMemory, agent_id)]
      /\ UNCHANGED storeVars

ReadLogs ==
    \E lines \in 0..MaxLines :
      /\ store_call' = [op |-> "read_logs", count |-> store_call.count,
                        updated |-> store_call.updated, arg |-> lines,
                        result |-> read_logs(log_file[LedgerWorkspace], lines)]
      /\ UNCHANGED storeVars

exceptStoreCaller ==
    <<procVars, spawnVars, spawnThreadVars, inferVars, assessVars, task_call,
      orchVars>>

NextLedger ==
    \/ AddBug /\ UNCHANGED exceptStoreCaller
    \/ AddSolution /\ UNCHANGED exceptStoreCaller
    \/ UpdateAgentState /\ UNCHANGED exceptStoreCaller
    \/ Log /\ UNCHANGED exceptStoreCaller
    \/ GetAgentState /\ UNCHANGED exceptStoreCaller
    \/ ReadLogs /\ UNCHANGED exceptStoreCaller

SpecLedger == InitSpawn /\ [][NextLedger]_vars

\* ------------------- shared/memory.py: a read concurrent with a write
\* Thread 1 runs mutating operations, thread 2 reads.
Writer == 1
Reader == 2

ReadOps ==
    { StoreOp("get_agent_state", "agent1_coder", None, None, 0),
      StoreOp("get_user_context", None, None, None, 0) }

ReadsContext(o) == o.op = "get_user_context"

\* What a read operation returns from the dict _read_json gave it.
Observe(o, d) ==
    IF o.op = "get_agent_state" THEN get_agent_state(d, o.a1) ELSE d

BeginRead(t) ==
    /\ pc[t] = "idle"
    /\ Len(hist[t]) < MaxOpsPerThread
    /\ \E o \in ReadOps : cur' = [cur EXCEPT ![t] = o]
    /\ pc' = [pc EXCEPT ![t] = "reading"]
    /\ UNCHANGED <<storeVars, instOf, instWs, lock, local, wdirty, hist>>

\* _read_json under the lock of the reader's own instance, then return. A
\* file another instance has open for writing is empty: json.load raises.
DoRead(t) ==
    /\ pc[t] = "reading"
    /\ lock[instOf[t]] = 0
    /\ LET f == IF ReadsContext(cur[t]) THEN context_file[wsOf(t)]
                ELSE memory_file[wsOf(t)]
           entry == IF f.ok
                    THEN [op |-> cur[t], outcome |-> "ok",
                          result |-> Observe(cur[t], f.data)]
                    ELSE [op |-> cur[t], outcome |-> "raised", result |-> None]
       IN  hist' = [hist EXCEPT ![t] = Append(@, entry)]
    /\ pc' = [pc EXCEPT ![t] = "idle"]
    /\ cur' = [cur EXCEPT ![t] = NoOp]
    /\ UNCHANGED <<storeVars, instOf, instWs, lock, local, wdirty>>

NextRead ==
    \/ BeginOp(Writer) /\ UNCHANGED exceptStoreThreads
    \/ ReadJson(Writer) /\ UNCHANGED exceptStoreThreads
    \/ WriteOpen(Writer) /\ UNCHANGED exceptStoreThreads
    \/ WriteClose(Writer) /\ UNCHANGED exceptStoreThreads
    \/ BeginRead(Reader) /\ UNCHANGED exceptStoreThreads
    \/ DoRead(Reader) /\ UNCHANGED exceptStoreThreads

SpecRead == InitStore /\ [][NextRead]_vars

\* ------------------------------------------------------------ claim C1
\* The store of a workspace: its two JSON files.
StoreOf(w) == [memory |-> memory_file[w], context |-> context_file[w]]

\* One whole mutating operation applied to a store, as an atomic step.
ApplyOp(o, st) ==
    IF OnContext(o)
    THEN [st EXCEPT !.context.data = Modify(o, @)]
    ELSE IF Raises(o, st.memory.data) THEN st
    ELSE [st EXCEPT !.memory.data = Modify(o, @)]

FreshStore(w) ==
    [memory |-> [ok |-> TRUE, data |-> InitialMemory(w)],
     context |-> [ok |-> TRUE, data |-> InitialContext]]

\* Each thread has run one operation, which returned normally, and both
\* worked on the same workspace.
BothFinishedOne ==
    /\ \A t \in Threads :
          pc[t] = "idle" /\ Len(hist[t]) = 1 /\ hist[t][1].outcome = "ok"
    /\ wsOf(1) = wsOf(2)

\* C1: two mutating operations run concurrently on one workspace leave the
\* store as some serial order of the two would (no update is lost).
C1_Atomic ==
    BothFinishedOne =>
        LET o1 == hist[1][1].op
            o2 == hist[2][1].op
            s0 == FreshStore(wsOf(1))
        IN  StoreOf(wsOf(1)) \in
                {ApplyOp(o2, ApplyOp(o1, s0)), ApplyOp(o1, ApplyOp(o2, s0))}

\* ------------------------------------------------------------ claim C2
\* C2: no interleaving of concurrent spawn_tri_agent_team calls leaves more
\* than max_teams teams in the active registry.
C2_NoOvershoot == Len(spawned_teams[TheSpawner]) <= max_teams

\* ------------------------------------------------------------ claim C3
\* A step in which spawner s is asked to spawn while its registry is full.
SpawnWhileFull(s) ==
    /\ MaxTeamsReached(s)
    /\ last_call'.op = "spawn"
    /\ last_call'.spawner = s

\* C3: used sequentially, a spawner's registry never holds more than
\* max_teams teams, and a spawn request made while it is full returns the
\* denied result and changes neither the store nor the registry nor the
\* persisted team descriptors.
C3_SequentialCap ==
    /\ [](\A s \in Spawners : Len(spawned_teams[s]) <= max_teams)
    /\ [][\A s \in Spawners :
            SpawnWhileFull(s) =>
                /\ last_call'.result = NoTeam
                /\ UNCHANGED <<storeVars, spawned_teams, team_configs>>]_vars

C3_Witness ==
    /\ last_call.op = "spawn"
    /\ last_call.result = NoTeam
    /\ Len(spawned_teams[last_call.spawner]) = max_teams

\* ------------------------------------------------------------ claim C4
\* C4: the cap is global: the active teams of all spawners together never
\* exceed max_teams.
C4_GlobalCap ==
    Len(spawned_teams[1]) + Len(spawned_teams[2]) <= max_teams

\* ------------------------------------------------------------ claim C5
ActiveSpawnRecords(w) ==
    {k \in 1..Len(memory_file[w].data.spawned_agents) :
        memory_file[w].data.spawned_agents[k].status = "active"}

\* C5: the store of a workspace never holds more than max_teams SpawnRecords
\* whose status is active.
C5_ActiveRecordsCap ==
    \A w \in Workspaces : Cardinality(ActiveSpawnRecords(w)) <= max_teams

\* No two providers of the layer report the same name.
DistinctNames ==
    \A j, k \in DOMAIN provider_names :
        provider_names[j] = provider_names[k] => j = k

\* ------------------------------------------------------------ claim C6
Failed(k) == gen_trace[k].outcome \in {"unavailable", "threw"}

\* The failure counter the layer keeps for provider k.
CounterOf(k) == provider_failures[provider_names[k]]

\* C6: generate returns the response and name of the first provider, in
\* priority order, that is live and succeeds; fallback_used is true exactly
\* when it is not the primary; every earlier provider's failure counter has
\* gone up by exactly one and the successful provider's counter is 0.
C6_FirstLiveSucceeds ==
    gen_result.kind = "returned" =>
        LET k == gen_result.index
        IN  /\ gen_trace[k].outcome = "succeeded"
            /\ \A j \in 1..(k - 1) : Failed(j)
            /\ gen_result.response = ResponseOf(k)
            /\ gen_result.provider = provider_names[k]
            /\ gen_result.fallback_used = (k # 1)
            /\ \A j \in 1..(k - 1) : CounterOf(j) = gen_trace[j].before + 1
            /\ CounterOf(k) = 0

\* C6 restricted to layers whose providers report distinct names.
C6_WhenNamesDistinct == DistinctNames => C6_FirstLiveSucceeds

\* ------------------------------------------------------------ claim C7
\* C7: one generate call is a single linear sweep: a provider is probed only
\* after every earlier one failed, each provider is probed and asked to
\* generate at most once, and after the first success the call has returned,
\* no later provider was probed or invoked and the failure counters of the
\* later providers are unchanged.
C7_LinearSweep ==
    \A k \in DOMAIN provider_names :
        /\ gen_trace[k].probes <= 1
        /\ gen_trace[k].attempts <= gen_trace[k].probes
        /\ gen_trace[k].probes = 1 => \A j \in 1..(k - 1) : Failed(j)
        /\ gen_trace[k].outcome = "succeeded" =>
              /\ gen_pc = "idle"
              /\ gen_result.kind = "returned"
              /\ \A j \in (k + 1)..NumProviders :
                    /\ gen_trace[j].probes = 0
                    /\ gen_trace[j].attempts = 0
                    /\ CounterOf(j) = gen_trace[j].before

\* C7 restricted to layers whose providers report distinct names.
C7_WhenNamesDistinct == DistinctNames => C7_LinearSweep

\* ------------------------------------------------------------ claim C8
\* C8: when every provider is unavailable or throws, generate raises instead
\* of returning, and every provider's failure counter has gone up by exactly
\* one (also with the primary alone).
C8_AllProvidersFail ==
    /\ gen_result.kind = "raised" =>
          \A k \in DOMAIN provider_names :
              Failed(k) /\ CounterOf(k) = gen_trace[k].before + 1
    /\ (gen_pc = "idle" /\ \A k \in DOMAIN provider_names : Failed(k)) =>
          gen_result.kind = "raised"

\* C8 restricted to layers whose providers report distinct names.
C8_WhenNamesDistinct == DistinctNames => C8_AllProvidersFail

\* ------------------------------------------------------------ claim C9
\* C9: whatever names the providers report, the counter of each provider
\* equals the number of its own failed probes and attempts since its own
\* most recent successful generation.
C9_PerProviderCounter ==
    \A k \in DOMAIN provider_names : CounterOf(k) = own_failures[k]

\* C9 restricted to layers whose providers report distinct names.
C9_WhenNamesDistinct == DistinctNames => C9_PerProviderCounter

\* ----------------------------------------------------------- claim C10
\* C10: the team count is monotonic non-decreasing in the complexity score
\* and is always one of 0, 1, 2, 3.
C10_MonotoneCapped ==
    /\ assess_last.made => assess_last.teams \in 0..3
    /\ (assess_last.made /\ assess_prev.made) =>
          /\ assess_prev.score <= assess_last.score =>
                assess_prev.teams <= assess_last.teams
          /\ assess_last.score <= assess_prev.score =>
                assess_last.teams <= assess_prev.teams

C10_Witness ==
    /\ assess_prev.made /\ assess_last.made
    /\ assess_prev.score = 13 /\ assess_prev.teams = 3
    /\ assess_last.score > 13 /\ assess_last.teams = 3

\* ----------------------------------------------------------- claim C11
\* The scoring rule as the specification words it, on what a descriptor
\* declares. Hours are in tenths of an hour.
SpecDurationBand(hours) ==
    IF hours > 80 THEN 2 ELSE IF hours > 40 THEN 1 ELSE 0

SpecDifficultyWeight(difficulty) ==
    CASE difficulty = "high" -> 3
      [] difficulty = "medium" -> 1
      [] difficulty = "low" -> 0

SpecBanding(score) ==
    IF score <= 3 THEN 0
    ELSE IF score <= 7 THEN 1
    ELSE IF score <= 12 THEN 2
    ELSE 3

\* The score of a descriptor; an undeclared factor adds nothing, except
\* that an undeclared difficulty adds undeclaredWeight.
SpecScore(task, undeclaredWeight) ==
    (IF "subtasks" \in task.declared THEN Len(task.subtasks) ELSE 0)
    + (IF "estimated_hours" \in task.declared
       THEN SpecDurationBand(task.estimated_hours) ELSE 0)
    + (IF "dependencies" \in task.declared THEN Len(task.dependencies) ELSE 0)
    + (IF "difficulty" \in task.declared
       THEN SpecDifficultyWeight(task.difficulty) ELSE undeclaredWeight)

ExampleNoSpawn == Task(<<>>, 5, <<>>, "low", TaskKeys)
ExampleTwoTeams ==
    Task(<<"A", "B", "C", "D">>, 100, <<"Database", "API">>, "high", TaskKeys)

\* C11 as stated: for every descriptor, also one that leaves a factor
\* undeclared, the assessor returns the banding of |subtasks| + durationBand
\* + |dependencies| + difficultyWeight, where only high, medium and low
\* carry a weight (3, 1, 0).
C11_ScoreFormula ==
    assess_last.made =>
        assess_last.teams = SpecBanding(SpecScore(assess_last.task, 0))

\* C11 amended: the same, with a descriptor that leaves difficulty undeclared
\* scored as one of medium difficulty (weight 1); the two examples give
\* score 0 with 0 teams and score 11 with 2 teams.
C11_ScoreFormulaDefaultMedium ==
    assess_last.made =>
        /\ assess_last.score = SpecScore(assess_last.task, 1)
        /\ assess_last.teams = SpecBanding(SpecScore(assess_last.task, 1))
        /\ assess_last.task = ExampleNoSpawn =>
              assess_last.score = 0 /\ assess_last.teams = 0
        /\ assess_last.task = ExampleTwoTeams =>
              assess_last.score = 11 /\ assess_last.teams = 2

\* Three subtasks and no declared difficulty: one team is asked for.
C11_Witness ==
    /\ assess_last.made
    /\ "difficulty" \notin assess_last.task.declared
    /\ Len(assess_last.task.subtasks) = 3
    /\ "subtasks" \in assess_last.task.declared
    /\ assess_last.score = 4
    /\ assess_last.teams = 1
    /\ assess_prev.made /\ assess_prev.score = 11 /\ assess_prev.teams = 2

\* ----------------------------------------------------------- claim C12
\* C12: the assessor is pure and deterministic: two calls on the same
\* descriptor, on whichever spawner and in whatever state of the store and
\* the registry, return the same score and team count, and a call changes
\* neither the store, the log, the registry nor the team descriptors.
C12_PureDeterministic ==
    /\ []((assess_prev.made /\ assess_last.made
            /\ assess_prev.task = assess_last.task) =>
              /\ assess_prev.score = assess_last.score
              /\ assess_prev.teams = assess_last.teams)
    /\ [][assess_last' # assess_last =>
            UNCHANGED <<storeVars, spawned_teams, team_configs, uuid_count>>]_vars

\* The same descriptor was assessed on one spawner with a full registry and
\* on the other with room left.
C12_Witness ==
    /\ assess_prev.made /\ assess_last.made
    /\ assess_prev.task = assess_last.task
    /\ assess_prev.spawner # assess_last.spawner
    /\ assess_prev.full /\ ~assess_last.full
    /\ assess_last.teams = 2

\* ----------------------------------------------------------- claim C13
Min(a, b) == IF a <= b THEN a ELSE b

\* C13 as stated: in every state of the registry, spawn_for_task returns
\* exactly as many team ids as the assessor asks teams for the task.
C13_ExactlyTeamsNeeded ==
    task_call.made =>
        Len(task_call.result) = assess_task_complexity(task_call.task)

\* C13 amended: spawn_for_task asks for teamsNeeded teams one after the
\* other and returns the ids of those admitted: as many as teamsNeeded, or
\* as the registry had room for below max_teams when that is fewer (none
\* when teamsNeeded is 0).
C13_AdmittedTeams ==
    task_call.made =>
        LET needed == assess_task_complexity(task_call.task)
            room == max_teams - task_call.active_before
        IN  /\ Len(task_call.result) = Min(needed, room)
            /\ needed = 0 => task_call.result = <<>>

\* Three teams were needed with nine active: one id came back.
C13_Witness ==
    /\ task_call.made
    /\ assess_task_complexity(task_call.task) = 3
    /\ task_call.active_before = max_teams - 1
    /\ Len(task_call.result) = 1
    /\ Len(spawned_teams[task_call.spawner]) = max_teams

\* ----------------------------------------------------------- claim C14
\* The SpawnRecords the last spawn_for_task call appended, in order.
RecordsCreated ==
    LET recs == memory_file[spawner_workspace(task_call.spawner)].data.spawned_agents
    IN  SubSeq(recs, task_call.records_before + 1,
               task_call.records_before + Len(task_call.result))

DeclaredSubtasks(task) ==
    IF "subtasks" \in task.declared THEN task.subtasks ELSE <<>>

\* The placeholder as the specification spells it.
PlaceholderAsSpecified(i) ==
    CASE i = 1 -> "parallel work 1"
      [] i = 2 -> "parallel work 2"
      [] i = 3 -> "parallel work 3"

\* The placeholder with a capital P.
PlaceholderCapitalised(i) ==
    CASE i = 1 -> "Parallel work 1"
      [] i = 2 -> "Parallel work 2"
      [] i = 3 -> "Parallel work 3"

ExampleThreeTeams ==
    Task(<<"A", "B">>, 100, SubSeq(DependencyPool, 1, 6), "high", TaskKeys)

\* C14 as stated: the i-th team spawned by spawn_for_task (from 1) is given
\* the i-th declared subtask, or "parallel work i" once the subtasks are
\* exhausted, and the records are created in that order; subtasks A, B with
\* three teams give A, B, "parallel work 3".
C14_LeftToRight ==
    task_call.made =>
        /\ Len(RecordsCreated) = Len(task_call.result)
        /\ \A i \in 1..Len(task_call.result) :
              /\ RecordsCreated[i].spawned_id = task_call.result[i]
              /\ RecordsCreated[i].task =
                    IF i <= Len(DeclaredSubtasks(task_call.task))
                    THEN DeclaredSubtasks(task_call.task)[i]
                    ELSE PlaceholderAsSpecified(i)
        /\ (task_call.task = ExampleThreeTeams /\ Len(task_call.result) = 3) =>
              [i \in 1..3 |-> RecordsCreated[i].task]
                 = <<"A", "B", "parallel work 3">>

\* C14 amended: the same with the placeholder spelled "Parallel work i";
\* subtasks A, B with three teams admitted give A, B, "Parallel work 3".
C14_LeftToRightCapitalised ==
    task_call.made =>
        /\ Len(RecordsCreated) = Len(task_call.result)
        /\ \A i \in 1..Len(task_call.result) :
              /\ RecordsCreated[i].spawned_id = task_call.result[i]
              /\ RecordsCreated[i].task =
                    IF i <= Len(DeclaredSubtasks(task_call.task))
                    THEN DeclaredSubtasks(task_call.task)[i]
                    ELSE PlaceholderCapitalised(i)
        /\ (task_call.task = ExampleThreeTeams /\ Len(task_call.result) = 3) =>
              [i \in 1..3 |-> RecordsCreated[i].task]
                 = <<"A", "B", "Parallel work 3">>

C14_Witness ==
    /\ task_call.made
    /\ task_call.task = ExampleThreeTeams
    /\ task_call.records_before > 0
    /\ Len(task_call.result) = 3
    /\ RecordsCreated[3].task = "Parallel work 3"
    /\ RecordsCreated[1].task = "A"

\* ----------------------------------------------------------- claim C15
\* C15: get_agent_state returns a state that has a status, and for an agent
\* id that was never set that state is the idle default: status idle, no
\* current task.
C15_IdleDefault ==
    store_call.op = "get_agent_state" =>
        /\ "status" \in DOMAIN store_call.result
        /\ store_call.arg \notin store_call.updated =>
              /\ store_call.result.status = "idle"
              /\ store_call.result.current_task = None

\* C15 for the three fixed roles only.
C15_FixedRoles ==
    (store_call.op = "get_agent_state" /\ store_call.arg \in AgentIds) =>
        C15_IdleDefault

\* ----------------------------------------------------------- claim C16
\* A step that is an add_solution call.
AddSolutionStep ==
    /\ store_call'.op = "add_solution"
    /\ store_call'.count = store_call.count + 1

BugIds(m) == 0..(Len(m.bugs_encountered) - 1)

\* C16: an add_solution call whose bug_id matches no recorded bug fails and
\* changes nothing: no solution is appended and no bug changes.
C16_BugNotFound ==
    [][(AddSolutionStep /\ store_call'.arg \notin BugIds(LedgerMemory)) =>
          /\ store_call'.raised
          /\ UNCHANGED memory_file]_vars

\* ----------------------------------------------------------- claim C17
Resolved(m, b) == m.bugs_encountered[b + 1].resolved

\* C17: a bug is marked resolved exactly when the solution ledger holds an
\* entry with its identifier, and add_solution(b) changes the resolved flag
\* of bug b and of no other bug, for every integer b.
C17_ResolvedIffSolution ==
    /\ [](\A b \in BugIds(LedgerMemory) :
            Resolved(LedgerMemory, b) <=>
               \E k \in 1..Len(LedgerMemory.solutions) :
                   LedgerMemory.solutions[k].bug_id = b)
    /\ [][AddSolutionStep =>
            \A b \in BugIds(LedgerMemory) :
                Resolved(LedgerMemory', b) # Resolved(LedgerMemory, b) =>
                    b = store_call'.arg]_vars

\* C17 for identifiers of recorded bugs only.
C17_KnownIdsOnly ==
    [][(AddSolutionStep /\ store_call'.arg \in BugIds(LedgerMemory)) =>
          /\ ~store_call'.raised
          /\ Resolved(LedgerMemory', store_call'.arg)
          /\ \A b \in BugIds(LedgerMemory) :
                Resolved(LedgerMemory', b) # Resolved(LedgerMemory, b) =>
                    b = store_call'.arg]_vars

\* ----------------------------------------------------------- claim C18
\* The bug an add_bug call records.
BugOf(o) == [agent_id |-> o.a1, description |-> o.a2, resolved |-> FALSE]

\* C18: after two concurrent add_bug calls on one workspace have returned,
\* each caller's bug is in the ledger under an identifier (position) of its
\* own.
C18_DistinctBugIds ==
    (BothFinishedOne /\ \A t \in Threads : hist[t][1].op.op = "add_bug") =>
        LET bugs == memory_file[wsOf(1)].data.bugs_encountered
        IN  \E i, j \in 1..Len(bugs) :
               /\ i # j
               /\ bugs[i] = BugOf(hist[1][1].op)
               /\ bugs[j] = BugOf(hist[2][1].op)

\* ----------------------------------------------------------- claim C19
\* C19: read_logs(n), n >= 0, on a log of L lines returns exactly min(n, L)
\* lines: the most recently appended ones, in append order.
C19_LastLines ==
    store_call.op = "read_logs" =>
        LET logseq == log_file[LedgerWorkspace]
            L == Len(logseq)
            n == store_call.arg
            m == IF n <= L THEN n ELSE L
        IN  /\ Len(store_call.result) = m
            /\ store_call.result = SubSeq(logseq, L - m + 1, L)

\* C19 for n >= 1 only.
C19_WhenPositive ==
    (store_call.op = "read_logs" /\ store_call.arg >= 1) => C19_LastLines

\* ----------------------------------------------------------- claim C20
\* The reader returns in this step.
ReadReturns == pc[Reader] = "reading" /\ pc'[Reader] = "idle"

\* The dict of the file a read is about as it was before the write in
\* flight, and as that write leaves it.
BeforeWrite(o) ==
    IF ReadsContext(o) THEN context_file[wsOf(Reader)].data
    ELSE memory_file[wsOf(Reader)].data

AfterWrite(o) ==
    IF /\ pc[Writer] \in {"write", "writing"}
       /\ wsOf(Writer) = wsOf(Reader)
       /\ OnContext(cur[Writer]) = ReadsContext(o)
    THEN local[Writer]
    ELSE BeforeWrite(o)

\* C20: a read concurrent with a write, through the same or another
\* SharedMemory instance of the workspace, never fails and returns what the
\* complete store holds before that write or after it.
C20_ReadSeesWholeStore ==
    [][ReadReturns =>
          LET e == hist'[Reader][Len(hist'[Reader])]
          IN  /\ e.outcome = "ok"
              /\ e.result \in {Observe(e.op, BeforeWrite(e.op)),
                                Observe(e.op, AfterWrite(e.op))}]_vars

\* C20 for a reader and a writer that share one SharedMemory instance.
C20_SameInstance ==
    [][(ReadReturns /\ instOf[Reader] = instOf[Writer]) =>
          LET e == hist'[Reader][Len(hist'[Reader])]
          IN  /\ e.outcome = "ok"
              /\ e.result \in {Observe(e.op, BeforeWrite(e.op)),
                                Observe(e.op, AfterWrite(e.op))}]_vars

\* ------------------- shared/memory.py: opening a workspace that has files
\* What __init__ can find on disk: no file, a file that is no JSON text,
\* or a file written by an earlier run.
AbsentFile == [ok |-> FALSE, data |-> None]
CorruptFile == [ok |-> FALSE, data |-> "garbage"]

\* Path.exists()
Exists(f) == f.ok \/ f.data # None

FoundMemoryFiles ==
    { AbsentFile, CorruptFile,
      [ok |-> TRUE, data |-> InitialMemory(LedgerWorkspace)],
      [ok |-> TRUE, data |-> add_bug(InitialMemory(LedgerWorkspace),
                                     "agent1_coder", "old bug")] }

FoundContextFiles ==
    { AbsentFile, CorruptFile, [ok |-> TRUE, data |-> InitialContext] }

InitFoundFiles ==
    /\ \E f \in FoundMemoryFiles :
          memory_file = [w \in Workspaces |->
              IF w = LedgerWorkspace THEN f
              ELSE [ok |-> TRUE, data |-> InitialMemory(w)]]
    /\ \E f \in FoundContextFiles :
          context_file = [w \in Workspaces |->
              IF w = LedgerWorkspace THEN f
              ELSE [ok |-> TRUE, data |-> InitialContext]]
    /\ log_file = [w \in Workspaces |-> <<>>]

InitLoad ==
    /\ InitFoundFiles /\ InitNoThreads /\ InitSpawners /\ InitNoInference
    /\ InitAssessor /\ InitCallers

\* _initialize_memory: each file is written only when it does not exist; a
\* file that exists is not opened.
initialize_memory_file(f, initial) ==
    IF ~Exists(f) THEN [ok |-> TRUE, data |-> initial] ELSE f

\* SharedMemory(workspace_id)
Construct ==
    /\ store_call.op = "none"
    /\ memory_file' = [memory_file EXCEPT ![LedgerWorkspace] =
          initialize_memory_file(@, InitialMemory(LedgerWorkspace))]
    /\ context_file' = [context_file EXCEPT ![LedgerWorkspace] =
          initialize_memory_file(@, InitialContext)]
    /\ store_call' = [op |-> "__init__", count |-> 0, updated |-> {},
                      raised |-> FALSE,
                      found |-> [memory |-> memory_file[LedgerWorkspace],
                                 context |-> context_file[LedgerWorkspace]]]
    /\ UNCHANGED log_file

\* The operations called on the instance once it is constructed.
LoadedOps ==
    { StoreOp("add_bug", "agent1_coder", "b1", None, 0),
      StoreOp("update_agent_state", "agent1_coder", "coding", "T", 0),
      StoreOp("add_user_context", "user_input", "u1", None, 0) } \cup ReadOps

\* One operation on the constructed instance: _read_json, the change, and
\* _write_json. json.load raises on a file that is no JSON text and the
\* operation ends there.
CallLoaded ==
    \E o \in LoadedOps :
      /\ store_call.op # "none"
      /\ store_call.count < MaxStoreCalls
      /\ LET onctx == OnContext(o) \/ ReadsContext(o)
             f == IF onctx THEN context_file[LedgerWorkspace]
                  ELSE memory_file[LedgerWorkspace]
         IN  /\ store_call' = [store_call EXCEPT !.op = o.op,
                                                 !.count = @ + 1,
                                                 !.raised = ~f.ok]
             /\ IF f.ok /\ o \in StoreOps /\ onctx
                THEN /\ context_file' = [context_file EXCEPT
                           ![LedgerWorkspace].data = Modify(o, @)]
                     /\ UNCHANGED memory_file
                ELSE IF f.ok /\ o \notin ReadOps
                THEN /\ memory_file' = [memory_file EXCEPT
                           ![LedgerWorkspace].data = Modify(o, @)]
                     /\ UNCHANGED context_file
                ELSE UNCHANGED <<memory_file, context_file>>
      /\ UNCHANGED log_file

NextLoad ==
    \/ Construct /\ UNCHANGED exceptStoreCaller
    \/ CallLoaded /\ UNCHANGED exceptStoreCaller

SpecLoad == InitLoad /\ [][NextLoad]_vars

\* ------------------------------------------------------------ claim C21
\* C21: a workspace whose persisted state is corrupt when it is opened is
\* reinitialised to the empty default, and the operations called on it
\* afterwards succeed instead of failing on the corrupt content.
C21_RecoversFromCorruptState ==
    store_call.op # "none" =>
        /\ memory_file[LedgerWorkspace].ok
        /\ context_file[LedgerWorkspace].ok
        /\ ~store_call.raised
        /\ (store_call.op = "__init__" /\ store_call.found.memory = CorruptFile)
              => memory_file[LedgerWorkspace].data = InitialMemory(LedgerWorkspace)

\* ------------------------- agents/*.py: the three roles over one workspace
\* The part of the state one call works on: the files of the workspace, the
\* fields of the agent objects, and what the call has done so far. raised:
\* an exception is propagating, the rest of the call is skipped.
NoDiagnosis ==
    [agent1_status |-> None, agent2_status |-> None, errors_count |-> 0,
     warnings_count |-> 0, health |-> None]

World(ws) ==
    [mem |-> memory_file[ws], ctx |-> context_file[ws], log |-> log_file[ws],
     objs |-> agent_objs, raised |-> FALSE, trace |-> <<>>,
     diagnosis |-> NoDiagnosis, needs_intervention |-> FALSE]

\* An operation that goes through _read_json / _write_json on memory.json:
\* json.load raises on a file that is no JSON text; else the dict read is
\* written back changed.
WithMemory(w, changed) ==
    IF w.raised THEN w
    ELSE IF ~w.mem.ok THEN [w EXCEPT !.raised = TRUE]
    ELSE [w EXCEPT !.mem.data = changed]

WithContext(w, changed) ==
    IF w.raised THEN w
    ELSE IF ~w.ctx.ok THEN [w EXCEPT !.raised = TRUE]
    ELSE [w EXCEPT !.ctx.data = changed]

\* memory.log(agent_id, message, level): the message is a fixed text and the
\* value formatted into it.
WriteLog(w, agent_id, text, arg, level) ==
    IF w.raised THEN w
    ELSE [w EXCEPT !.log = Append(@, LogLine(agent_id, [text |-> text, arg |-> arg],
                                             level))]

Step(w, name, seen) ==
    IF w.raised THEN w
    ELSE [w EXCEPT !.trace = Append(@, [step |-> name, seen |-> seen])]

\* dict.get("status") on what get_agent_state returned.
StatusOf(state) == IF "status" \in DOMAIN state THEN state.status ELSE None
CurrentTaskOf(state) ==
    IF "current_task" \in DOMAIN state THEN state.current_task ELSE None

\* Agent1Coder.start_task(task_description)
start_task(w, task_description) ==
    IF w.raised THEN w
    ELSE LET w1 == [w EXCEPT !.objs.current_task = task_description,
                             !.objs.needs_help = FALSE]
             w2 == WithMemory(w1,
                      update_agent_state(w1.mem.data, "agent1_coder", "coding",
                                         task_description))
             w3 == WithMemory(w2,
                      add_conversation(w2.mem.data, "agent1_coder", "system",
                                       task_description))
         IN  Step(w3, "start_task", None)

\* Agent1Coder.take_break(): the stored state gets task=None, the object
\* keeps self.current_task.
take_break(w) ==
    LET w1 == WithMemory(w,
                 update_agent_state(w.mem.data, "agent1_coder", "resting", None))
    IN  WriteLog(w1, "agent1_coder", "Taking a break. Agent 2 will substitute.",
                 None, "INFO")

resume_StoredTask(w) ==
    LET w1 == WithMemory(w,
                 update_agent_state(w.mem.data, "agent1_coder", "active",
                    CurrentTaskOf(get_agent_state(w.mem.data, "agent1_coder"))))
    IN  WriteLog(w1, "agent1_coder", "Resumed coding", None, "INFO")

\* Agent1Coder.resume(): the task comes from self.current_task.
resume(w) ==
    LET w1 == WithMemory(w,
                 update_agent_state(w.mem.data, "agent1_coder", "active",
                                    w.objs.current_task))
    IN  WriteLog(w1, "agent1_coder", "Resumed coding", None, "INFO")

\* Agent2Improver.substitute_for_agent1(task)
substitute_for_agent1(w, task) ==
    IF w.raised THEN w
    ELSE LET w1 == [w EXCEPT !.objs.is_substituting = TRUE]
             w2 == WithMemory(w1,
                      update_agent_state(w1.mem.data, "agent2_improver",
                                         "substituting", task))
         IN  WriteLog(w2, "agent2_improver", "Substituting for Agent 1 on task",
                      task, "INFO")

step_back_StillSubstituting(w) ==
    IF w.raised THEN w
    ELSE LET w1 == [w EXCEPT !.objs.is_substituting = FALSE]
             w2 == WithMemory(w1,
                      update_agent_state(w1.mem.data, "agent2_improver",
                                         "substituting", None))
         IN  WriteLog(w2, "agent2_improver",
                      "Agent 1 resumed. Returning to support role.", None, "INFO")

\* Agent2Improver.step_back()
step_back(w) ==
    IF w.raised THEN w
    ELSE LET w1 == [w EXCEPT !.objs.is_substituting = FALSE]
             w2 == WithMemory(w1,
                      update_agent_state(w1.mem.data, "agent2_improver",
                                         "monitoring", None))
         IN  WriteLog(w2, "agent2_improver",
                      "Agent 1 resumed. Returning to support role.", None, "INFO")

\* Agent2Improver.monitor_and_assist(): on "coding" the last 20 log lines are
\* read and searched, which changes nothing; on "resting" the reviewer
\* substitutes when the stored task is set and it is not substituting.
monitor_and_assist(w) ==
    IF w.raised THEN w
    ELSE IF ~w.mem.ok THEN [w EXCEPT !.raised = TRUE]
    ELSE LET agent1_status == get_agent_state(w.mem.data, "agent1_coder")
             task == CurrentTaskOf(agent1_status)
             w1 == Step(w, "monitor_and_assist", agent1_status)
         IN  IF StatusOf(agent1_status) = "resting"
                /\ task # None /\ ~w.objs.is_substituting
             THEN substitute_for_agent1(w1, task)
             ELSE w1

\* The texts formatted into log messages, and the words found in them.
PlainTexts == {"T1", "Task", "A", "B", "C", "D", "deploy"}
TextsWithError == {"fix ERROR handling"}
TextsWithWarning == {"silence WARNING banner"}

\* word in text (Python substring test) for the texts above.
Contains(text, word) ==
    \/ word = "ERROR" /\ text \in TextsWithError
    \/ word = "WARNING" /\ text \in TextsWithWarning

\* word in line, for a line "[timestamp] [agent_id] LEVEL: message": found
\* in the level or in the value formatted into the message.
LineContains(line, word) ==
    \/ line.level = word
    \/ IF line.agent_id = "spawner"
       THEN Contains(line.message.task, word)
       ELSE Contains(line.message.arg, word)

\* len([log for log in logs if word in log])
CountLines(logs, word) ==
    Cardinality({i \in DOMAIN logs : LineContains(logs[i], word)})

\* Agent3Doctor.read_logs(lines=200) as diagnose_system calls it.
DiagnosisTail == 200

ErrorsThreshold == 5
WarningsThreshold == 10

\* "critical" if len(errors) > 5 else "warning" if len(warnings) > 10 else
\* "healthy"
classify_health(errors_count, warnings_count) ==
    IF errors_count > ErrorsThreshold THEN "critical"
    ELSE IF warnings_count > WarningsThreshold THEN "warning"
    ELSE "healthy"

\* Agent3Doctor.diagnose_system(): logs its own line first, then reads the
\* two agent states and the last 200 lines.
diagnose_system(w) ==
    IF w.raised THEN w
    ELSE LET w1 == WriteLog(w, "agent3_doctor", "Running system diagnosis", None,
                            "INFO")
         IN  IF ~w1.mem.ok THEN [w1 EXCEPT !.raised = TRUE]
             ELSE LET agent1_state == get_agent_state(w1.mem.data, "agent1_coder")
                      agent2_state == get_agent_state(w1.mem.data, "agent2_improver")
                      logs == read_logs(w1.log, DiagnosisTail)
                      errors == CountLines(logs, "ERROR")
                      warnings == CountLines(logs, "WARNING")
                      w2 == Step(w1, "diagnose_system", agent1_state)
                  IN  [w2 EXCEPT !.diagnosis =
                          [agent1_status |-> StatusOf(agent1_state),
                           agent2_status |-> StatusOf(agent2_state),
                           errors_count |-> errors,
                           warnings_count |-> warnings,
                           health |-> classify_health(errors, warnings)]]

\* Agent3Doctor.monitor_health(): True exactly on "critical".
monitor_health(w) ==
    LET w1 == diagnose_system(w)
    IN  IF w1.raised THEN w1
        ELSE [w1 EXCEPT !.needs_intervention = (w1.diagnosis.health = "critical")]

\* --------------------- core/orchestrator.py: TriAgentOrchestrator.execute_task
\* The orchestrator, its three agents and its spawner all work on the
\* workspace of spawner 1.
Orchestrator == 1
OrchWorkspace == spawner_workspace(Orchestrator)

\* A task dict as execute_task reads it: the keys the spawner reads, and
\* "description", "user_input", "user_docs" (None: the key is absent).
ExecInput(task, description, user_input, user_docs) ==
    [task |-> task, description |-> description, user_input |-> user_input,
     user_docs |-> user_docs]

ExecInputs ==
    { ExecInput(t, d, u, None) :
        t \in { Task(<<>>, 5, <<>>, "low", TaskKeys),
                Task(<<"A", "B", "C">>, 5, <<>>, "medium", TaskKeys),
                Task(<<"A", "B", "C", "D">>, 100, <<"Database", "API">>, "high",
                     TaskKeys) },
        d \in {"T1", None},
        u \in {"u1", None} }
    \cup { ExecInput(Task(<<>>, 5, <<>>, "low", TaskKeys), "T1", None, "d1") }

\* agent.get_status() of the three agents: each reads its stored state.
get_status(w) ==
    [agent1 |-> [agent_id |-> "agent1_coder", role |-> "Coder",
                 current_task |-> w.objs.current_task,
                 needs_help |-> w.objs.needs_help,
                 state |-> get_agent_state(w.mem.data, "agent1_coder")],
     agent2 |-> [agent_id |-> "agent2_improver", role |-> "Improver/Backup",
                 is_substituting |-> w.objs.is_substituting,
                 state |-> get_agent_state(w.mem.data, "agent2_improver")],
     agent3 |-> [agent_id |-> "agent3_doctor", role |-> "Doctor/Arbitrator",
                 interventions_count |-> w.objs.interventions,
                 state |-> get_agent_state(w.mem.data, "agent3_doctor")]]

\* Step 1 of execute_task: spawner.spawn_for_task(task, agent1.agent_id).
\* The first admitted team goes through register_spawned_agent, which
\* raises on a memory.json that is no JSON text.
SpawnStepRaises(w, st, task) ==
    /\ assess_task_complexity(task) > 0
    /\ Len(st.teams) < max_teams
    /\ ~w.mem.ok

\* The value of an expression with one value.
TheOne(S) == CHOOSE v \in S : TRUE

\* execute_task(task): its statements one after the other, each on what the
\* one before it left; the world and the spawner state it leaves, and the
\* dict it returns. Nothing in it catches an exception.
execute_task(w, st, x) ==
    LET raised1 == SpawnStepRaises(w, st, x.task)
        st1 == IF raised1 THEN st
               ELSE spawn_for_task([st EXCEPT !.mem = w.mem.data, !.log = w.log],
                                   Orchestrator, x.task, "agent1_coder")
        spawned == { IF raised1 THEN [w EXCEPT !.raised = TRUE]
                     ELSE [w EXCEPT !.mem.data = s1.mem, !.log = s1.log] :
                     s1 \in {st1} }
        started == { start_task(v, IF x.description = None THEN "Task"
                                   ELSE x.description) : v \in spawned }
        with_input == { IF x.user_input = None THEN v
                        ELSE WithContext(v, add_user_context(v.ctx.data, "user_input",
                                                             x.user_input)) :
                        v \in started }
        with_docs == { IF x.user_docs = None THEN v
                       ELSE WithContext(v, add_user_context(v.ctx.data, "user_docs",
                                                            x.user_docs)) :
                       v \in with_input }
        monitored == { monitor_and_assist(v) : v \in with_docs }
        checked == { monitor_health(v) : v \in monitored }
    IN  TheOne({ [w |-> v, st |-> s1,
                  result |-> IF v.raised THEN EmptyDict
                             ELSE [task |-> x.description,
                                   status |-> "in_progress",
                                   agents |-> get_status(v),
                                   spawned_teams |-> s1.ids]] :
                 v \in checked, s1 \in {st1} })

MaxExecCalls == 1

\* One call of execute_task, run to completion.
ExecuteTask ==
    \E x \in ExecInputs :
      \E e \in {execute_task(World(OrchWorkspace), SpawnerState(Orchestrator), x)} :
          /\ orch_call.count < MaxExecCalls
          /\ uuid_count[1] + uuid_count[2] + Len(e.st.ids) <= MaxTeamIds
          /\ memory_file' = [memory_file EXCEPT ![OrchWorkspace] = e.w.mem]
          /\ context_file' = [context_file EXCEPT ![OrchWorkspace] = e.w.ctx]
          /\ log_file' = [log_file EXCEPT ![OrchWorkspace] = e.w.log]
          /\ spawned_teams' = [spawned_teams EXCEPT ![Orchestrator] = e.st.teams]
          /\ team_configs' = e.st.configs
          /\ uuid_count' = [uuid_count EXCEPT ![Orchestrator] = e.st.uuid]
          /\ agent_objs' = e.w.objs
          /\ orch_call' =
                [op |-> "execute_task", count |-> orch_call.count + 1,
                 input |-> x, raised |-> e.w.raised, result |-> e.result,
                 trace |-> e.w.trace, diagnosis |-> e.w.diagnosis,
                 needs_intervention |-> e.w.needs_intervention,
                 active_before |-> Len(spawned_teams[Orchestrator]),
                 log_before |-> Len(log_file[OrchWorkspace])]
          /\ UNCHANGED <<terminations, last_call, break_pc>>

\* A log of e lines logged at level ERROR, w at level WARNING and x at level
\* INFO whose message mentions the word ERROR.
Repeat(line, n) == [i \in 1..n |-> line]

LogOf(e, w, x) ==
    Repeat(LogLine("agent1_coder", [text |-> "Executing", arg |-> "deploy"],
                   "ERROR"), e)
    \o Repeat(LogLine("agent1_coder", [text |-> "Hit a wall", arg |-> "deploy"],
                      "WARNING"), w)
    \o Repeat(LogLine("agent1_coder",
                      [text |-> "Executing", arg |-> "fix ERROR handling"],
                      "INFO"), x)

\* The workspace an orchestrator is constructed on: files of an earlier run,
\* possibly no JSON text, and the log the earlier run left.
FoundLogs == {LogOf(0, 0, 0), LogOf(6, 2, 0), LogOf(5, 10, 0)}

InitExec ==
    /\ \E m \in {CorruptFile, [ok |-> TRUE, data |-> InitialMemory(OrchWorkspace)]},
          c \in {CorruptFile, [ok |-> TRUE, data |-> InitialContext]},
          l \in FoundLogs :
          /\ memory_file = [w \in Workspaces |->
                IF w = OrchWorkspace THEN m
                ELSE [ok |-> TRUE, data |-> InitialMemory(w)]]
          /\ context_file = [w \in Workspaces |->
                IF w = OrchWorkspace THEN c
                ELSE [ok |-> TRUE, data |-> InitialContext]]
          /\ log_file = [w \in Workspaces |-> IF w = OrchWorkspace THEN l ELSE <<>>]
    /\ InitNoThreads /\ InitSpawners /\ InitNoInference /\ InitAssessor
    /\ InitCallers

exceptOrchestrator ==
    <<procVars, spawnThreadVars, inferVars, assessVars, seqVars>>

NextExec ==
    \/ SpawnTeam(Orchestrator) /\ UNCHANGED exceptSpawner
    \/ ExecuteTask /\ UNCHANGED exceptOrchestrator

SpecExec == InitExec /\ [][NextExec]_vars

\* ------------------------------------------------------------ claim C22
\* C22: execute_task never lets an exception escape: whatever fails during
\* the call, it returns a status object.
C22_NoExceptionEscapes ==
    orch_call.op = "execute_task" =>
        /\ ~orch_call.raised
        /\ "status" \in DOMAIN orch_call.result

\* ------------------------------------------------------------ claim C23
\* What the last execute_task call asked of the spawner.
ExecTeamsNeeded == assess_task_complexity(orch_call.input.task)
ExecAdmitted ==
    SubSeq(spawned_teams[Orchestrator], orch_call.active_before + 1,
           Len(spawned_teams[Orchestrator]))
\* Requests refused because the registry was full.
ExecDenied ==
    IF Len(spawned_teams[Orchestrator]) >= max_teams
    THEN ExecTeamsNeeded - Len(ExecAdmitted)
    ELSE 0
ExecSteps == [i \in DOMAIN orch_call.trace |-> orch_call.trace[i].step]
ExecLogged ==
    SubSeq(log_file[OrchWorkspace], orch_call.log_before + 1,
           Len(log_file[OrchWorkspace]))

\* C23: when teams requested for a task are denied, execute_task still
\* starts the executor and runs the reviewer and arbitrator steps, the
\* remaining requests are attempted, the denial is logged, and the returned
\* list holds exactly the ids of the teams admitted.
C23_SpawnFailureNonFatal ==
    (orch_call.op = "execute_task" /\ ExecDenied > 0) =>
        /\ ~orch_call.raised
        /\ ExecSteps = <<"start_task", "monitor_and_assist", "diagnose_system">>
        /\ Len(ExecAdmitted) = Min(ExecTeamsNeeded, max_teams - orch_call.active_before)
        /\ orch_call.result.spawned_teams = ExecAdmitted
        /\ \E i \in DOMAIN ExecLogged :
              /\ ExecLogged[i].agent_id = "spawner"
              /\ ExecLogged[i].message.text # "Spawned tri-agent team"

\* ------------------------------------------------------------ claim C24
\* The state the executor leaves in the store when it is started on the task
\* of the last execute_task call.
ExecutorStateLeft ==
    [status |-> "coding",
     current_task |-> IF orch_call.input.description = None THEN "Task"
                      ELSE orch_call.input.description]

\* C24: in every task execution, once the executor has been started on the
\* task, the reviewer's monitoring step and then the arbitrator's health
\* check run, and both read the executor's state as the executor left it.
C24_MonitoringFollows ==
    (orch_call.op = "execute_task" /\ (\E i \in DOMAIN ExecSteps : ExecSteps[i] = "start_task")) =>
        /\ ExecSteps = <<"start_task", "monitor_and_assist", "diagnose_system">>
        /\ orch_call.trace[2].seen = ExecutorStateLeft
        /\ orch_call.trace[3].seen = ExecutorStateLeft

\* ------------------------------------------------------------ claim C29
\* The lines of an emergency command among those the last call logged.
EmergencyLogged ==
    {i \in DOMAIN ExecLogged :
        /\ ExecLogged[i].agent_id = "agent3_doctor"
        /\ ExecLogged[i].message.text = "EMERGENCY"}

\* C29: the health check reports that intervention is needed exactly when
\* the classification is critical, the status object execute_task returns
\* then carries that flag, and no emergency command is executed by the call.
C29_InterventionFlagReturned ==
    (orch_call.op = "execute_task" /\ ~orch_call.raised) =>
        /\ orch_call.needs_intervention <=> (orch_call.diagnosis.health = "critical")
        /\ orch_call.needs_intervention =>
              /\ "needs_intervention" \in DOMAIN orch_call.result
              /\ orch_call.result.needs_intervention
        /\ EmergencyLogged = {}

\* ------------- core/orchestrator.py, agents: the executor rests and resumes
\* Calls made on one orchestrator and its agents. agent1_takes_break is four
\* calls in a row (with a sleep in the middle); two callers may be inside it
\* at once. The other calls are made while no caller is inside it, except
\* the reviewer's monitoring step, which runs at any time.
MaxRestCalls == 3

RestTasks == {"T1", "T2"}

AllIdle == \A c \in BreakCallers : break_pc[c] = "idle"

StoredState(agent_id) ==
    get_agent_state(memory_file[OrchWorkspace].data, agent_id)

\* What a call leaves: the files of the workspace and the agent objects.
Commit(w) ==
    /\ memory_file' = [memory_file EXCEPT ![OrchWorkspace] = w.mem]
    /\ log_file' = [log_file EXCEPT ![OrchWorkspace] = w.log]
    /\ agent_objs' = w.objs
    /\ UNCHANGED context_file

\* The record of a call: task_before is the executor's task at its latest
\* rest, prev_status the executor's stored status before the call.
RestCall(op, via, started, task_before, seen) ==
    [op |-> op, via |-> via,
     count |-> orch_call.count + (IF started THEN 1 ELSE 0),
     task_before |-> task_before, seen |-> seen,
     prev_status |-> StatusOf(StoredState("agent1_coder")),
     was_substituting |-> agent_objs.is_substituting]

TaskBefore ==
    IF "task_before" \in DOMAIN orch_call THEN orch_call.task_before ELSE None

\* agent1.start_task(task)
StartTask ==
    \E task \in RestTasks :
      /\ AllIdle /\ orch_call.count < MaxRestCalls
      /\ Commit(start_task(World(OrchWorkspace), task))
      /\ orch_call' = RestCall("start_task", "direct", TRUE, TaskBefore, EmptyDict)
      /\ UNCHANGED break_pc

\* agent1.take_break(), called on the agent.
TakeBreak ==
    /\ AllIdle /\ orch_call.count < MaxRestCalls
    /\ Commit(take_break(World(OrchWorkspace)))
    /\ orch_call' = RestCall("take_break", "direct", TRUE, agent_objs.current_task,
                             EmptyDict)
    /\ UNCHANGED break_pc

\* agent1.resume(), called on the agent.
Resume ==
    /\ AllIdle /\ orch_call.count < MaxRestCalls
    /\ Commit(resume(World(OrchWorkspace)))
    /\ orch_call' = RestCall("resume", "direct", TRUE, TaskBefore, EmptyDict)
    /\ UNCHANGED break_pc

\* agent2.monitor_and_assist()
Monitor ==
    /\ orch_call.count < MaxRestCalls
    /\ Commit(monitor_and_assist(World(OrchWorkspace)))
    /\ orch_call' = RestCall("monitor_and_assist", "direct", TRUE, TaskBefore,
                             StoredState("agent1_coder"))
    /\ UNCHANGED break_pc

\* agent1_takes_break, first statement: self.agent1.take_break()
BreakTakeBreak(c) ==
    /\ break_pc[c] = "idle" /\ orch_call.count < MaxRestCalls
    /\ Commit(take_break(World(OrchWorkspace)))
    /\ orch_call' = RestCall("take_break", "orchestrator", TRUE,
                             agent_objs.current_task, EmptyDict)
    /\ break_pc' = [break_pc EXCEPT ![c] = "rested"]

\* self.agent2.substitute_for_agent1(self.agent1.current_task)
BreakSubstitute(c) ==
    /\ break_pc[c] = "rested"
    /\ Commit(substitute_for_agent1(World(OrchWorkspace), agent_objs.current_task))
    /\ orch_call' = RestCall("substitute_for_agent1", "orchestrator", FALSE,
                             TaskBefore, EmptyDict)
    /\ break_pc' = [break_pc EXCEPT ![c] = "substituted"]

\* time.sleep(1); self.agent1.resume()
BreakResume(c) ==
    /\ break_pc[c] = "substituted"
    /\ Commit(resume(World(OrchWorkspace)))
    /\ orch_call' = RestCall("resume", "orchestrator", FALSE, TaskBefore, EmptyDict)
    /\ break_pc' = [break_pc EXCEPT ![c] = "resumed"]

\* self.agent2.step_back()
BreakStepBack(c) ==
    /\ break_pc[c] = "resumed"
    /\ Commit(step_back(World(OrchWorkspace)))
    /\ orch_call' = RestCall("step_back", "orchestrator", FALSE, TaskBefore,
                             EmptyDict)
    /\ break_pc' = [break_pc EXCEPT ![c] = "idle"]

exceptAgents ==
    <<procVars, spawnVars, spawnThreadVars, inferVars, assessVars, seqVars>>

NextRest ==
    \/ StartTask /\ UNCHANGED exceptAgents
    \/ TakeBreak /\ UNCHANGED exceptAgents
    \/ Resume /\ UNCHANGED exceptAgents
    \/ Monitor /\ UNCHANGED exceptAgents
    \/ \E c \in BreakCallers :
          \/ BreakTakeBreak(c) /\ UNCHANGED exceptAgents
          \/ BreakSubstitute(c) /\ UNCHANGED exceptAgents
          \/ BreakResume(c) /\ UNCHANGED exceptAgents
          \/ BreakStepBack(c) /\ UNCHANGED exceptAgents

SpecRest == InitSpawn /\ [][NextRest]_vars

\* ------------------------------------------------------------ claim C25
Substituting(task) == [status |-> "substituting", current_task |-> task]

\* C25: when the executor rests while the reviewer is not substituting, the
\* reviewer substitutes with exactly the executor's task, both when
\* agent1_takes_break drives the handoff and when the reviewer sees the
\* resting status in the store in its monitoring step; the resting record
\* keeps the executor's task.
C25_SubstitutesWithExecutorTask ==
    /\ StatusOf(StoredState("agent1_coder")) = "resting"
          => CurrentTaskOf(StoredState("agent1_coder")) = agent_objs.current_task
    /\ (orch_call.op = "substitute_for_agent1" /\ ~orch_call.was_substituting)
          => StoredState("agent2_improver") = Substituting(orch_call.task_before)
    /\ (/\ orch_call.op = "monitor_and_assist"
        /\ orch_call.prev_status = "resting"
        /\ ~orch_call.was_substituting)
          => StoredState("agent2_improver") = Substituting(orch_call.task_before)

\* ------------------------------------------------------------ claim C26
\* The substitutions made so far: the lines substitute_for_agent1 logged.
Substitutions ==
    {i \in DOMAIN log_file[OrchWorkspace] :
        /\ log_file[OrchWorkspace][i].agent_id = "agent2_improver"
        /\ log_file[OrchWorkspace][i].message.text
              = "Substituting for Agent 1 on task"}

ReviewerSubstituting ==
    /\ agent_objs.is_substituting
    /\ StatusOf(StoredState("agent2_improver")) = "substituting"

\* C26: while the reviewer is substituting, no rest request and no
\* monitoring step makes it substitute again or replaces the task it
\* carries.
C26_NoSecondSubstitution ==
    [][ReviewerSubstituting =>
          /\ Substitutions' = Substitutions
          /\ ReviewerSubstituting' =>
                StoredState("agent2_improver")' = StoredState("agent2_improver")]_vars

\* ------------------------------------------------------------ claim C27
Active(task) == [status |-> "active", current_task |-> task]

\* C27 (the states): when the executor resumes from a rest its stored state
\* is active with the task it had before the rest; when a rest/resume round trip of
\* agent1_takes_break is over the reviewer is monitoring and no longer
\* substituting; and while no such call is in progress the executor is never
\* active with the reviewer substituting.
C27_RoundTripRestores ==
    /\ (orch_call.op = "resume" /\ orch_call.prev_status = "resting")
          => StoredState("agent1_coder") = Active(orch_call.task_before)
    /\ (orch_call.op = "step_back" /\ AllIdle)
          => /\ StoredState("agent1_coder") = Active(orch_call.task_before)
             /\ StatusOf(StoredState("agent2_improver")) = "monitoring"
             /\ ~agent_objs.is_substituting
    /\ (AllIdle /\ StatusOf(StoredState("agent1_coder")) = "active")
          => /\ StatusOf(StoredState("agent2_improver")) # "substituting"
             /\ ~agent_objs.is_substituting

\* A call of agent1_takes_break that has begun runs to its end.
FairSpecRest ==
    /\ SpecRest
    /\ \A c \in BreakCallers :
          WF_vars((BreakSubstitute(c) \/ BreakResume(c) \/ BreakStepBack(c))
                  /\ UNCHANGED exceptAgents)

ActiveWhileSubstituting ==
    /\ StatusOf(StoredState("agent1_coder")) = "active"
    /\ ReviewerSubstituting

LogLevels == {"INFO", "WARNING", "ERROR", "DEBUG"}
LoggedTexts == {"deploy", "fix ERROR handling", "silence WARNING banner"}

MaxErrorLines == 7
MaxWarningLines == 12
MaxLoggedLines == 1

\* The logs a diagnosis finds: e lines at level ERROR, w at level WARNING, x
\* at level INFO that mention ERROR in their message, and a log so long
\* that its first lines are older than the tail read.
HealthLogs ==
    { LogOf(e, w, x) : e \in 0..MaxErrorLines, w \in 0..MaxWarningLines,
                       x \in {0, 1, 6} }
    \cup { LogOf(6, 0, 0)
           \o Repeat(LogLine("agent1_coder", [text |-> "Executing", arg |-> "deploy"],
                             "INFO"), DiagnosisTail - 6) }

InitHealth ==
    /\ memory_file = [w \in Workspaces |-> [ok |-> TRUE, data |-> InitialMemory(w)]]
    /\ context_file = [w \in Workspaces |-> [ok |-> TRUE, data |-> InitialContext]]
    /\ \E l \in HealthLogs :
          log_file = [w \in Workspaces |-> IF w = OrchWorkspace THEN l ELSE <<>>]
    /\ InitNoThreads /\ InitSpawners /\ InitNoInference /\ InitAssessor
    /\ InitCallers

\* memory.log(agent_id, message, level) by any caller.
LogAny ==
    \E level \in LogLevels, text \in LoggedTexts :
      /\ orch_call.count < MaxLoggedLines
      /\ log_file' = [log_file EXCEPT ![OrchWorkspace] =
            Append(@, LogLine("agent1_coder", [text |-> "Executing", arg |-> text],
                              level))]
      /\ orch_call' = [op |-> "log", count |-> orch_call.count + 1]
      /\ UNCHANGED <<memory_file, context_file, agent_objs, break_pc>>

\* agent3.diagnose_system()
Diagnose ==
    \E w \in {diagnose_system(World(OrchWorkspace))} :
      /\ orch_call.op # "diagnose_system"
      /\ Commit(w)
      /\ orch_call' = [op |-> "diagnose_system", count |-> orch_call.count,
                       diagnosis |-> w.diagnosis,
                       logs |-> read_logs(w.log, DiagnosisTail)]
      /\ UNCHANGED break_pc

NextHealth ==
    \/ LogAny /\ UNCHANGED exceptAgents
    \/ Diagnose /\ UNCHANGED exceptAgents

SpecHealth == InitHealth /\ [][NextHealth]_vars

\* ------------------------------------------------------------ claim C28
\* The entries of a level among the lines a diagnosis read.
EntriesAt(logs, level) == {i \in DOMAIN logs : logs[i].level = level}

\* C28: the health classification depends only on the numbers of
\* error-level and warning-level entries in the log tail read: more than 5
\* error-level entries give critical, otherwise more than 10 warning-level
\* entries give warning, otherwise healthy; entries of other levels do not
\* count, whatever their message.
C28_HealthFromLevelCounts ==
    orch_call.op = "diagnose_system" =>
        LET errors == Cardinality(EntriesAt(orch_call.logs, "ERROR"))
            warnings == Cardinality(EntriesAt(orch_call.logs, "WARNING"))
        IN  orch_call.diagnosis.health =
                (IF errors > 5 THEN "critical"
                 ELSE IF warnings > 10 THEN "warning"
                 ELSE "healthy")

\* ------------- core/dual_layer_orchestrator.py: the shadow layer monitoring
\* DualLayerTriAgent(workspace_id): the three primary agents work on
\* f"{workspace_id}_layer1", the three shadow agents on
\* f"{workspace_id}_layer2_monitor".
Layer1Workspace == "default_layer1"

Layer2Workspace_OnPrimary == Layer1Workspace

Layer2Workspace == "default_layer2_monitor"

MaxDualCalls == 3

\* shadow_inference is None when vLLM is not available; the agent objects
\* are those of layer 1.
InitDual ==
    /\ InitFiles /\ InitNoThreads /\ InitSpawners /\ InitNoInference
    /\ InitAssessor
    /\ task_call = NoTaskCall
    /\ store_call = NoStoreCall
    /\ \E available \in BOOLEAN :
          agent_objs = [current_task |-> None, needs_help |-> FALSE,
                        is_substituting |-> FALSE, interventions |-> 0,
                        shadow_inference |-> available]
    /\ orch_call = NoOrchCall
    /\ break_pc = [c \in BreakCallers |-> "idle"]

\* What a call of an agent of layer 1 leaves on its workspace.
CommitOn(ws, w) ==
    /\ memory_file' = [memory_file EXCEPT ![ws] = w.mem]
    /\ log_file' = [log_file EXCEPT ![ws] = w.log]
    /\ UNCHANGED context_file

\* Agent1Coder.execute_code(code, description), the path that succeeds.
execute_code(w, description) ==
    LET w1 == WriteLog(w, "agent1_coder", "Executing", description, "INFO")
    IN  WithMemory(w1,
           add_conversation(w1.mem.data, "agent1_coder", "assistant", description))

PrimaryCall(op) == [op |-> op, count |-> orch_call.count + 1]

\* The primary layer at work: calls on layer1_agent1.
PrimaryStartTask ==
    \E task \in RestTasks :
      \E w \in {start_task(World(Layer1Workspace), task)} :
        /\ orch_call.count < MaxDualCalls
        /\ CommitOn(Layer1Workspace, w)
        /\ agent_objs' = w.objs
        /\ orch_call' = PrimaryCall("start_task")
        /\ UNCHANGED break_pc

PrimaryExecuteCode ==
    \E description \in LoggedTexts :
      \E w \in {execute_code(World(Layer1Workspace), description)} :
        /\ orch_call.count < MaxDualCalls
        /\ CommitOn(Layer1Workspace, w)
        /\ agent_objs' = w.objs
        /\ orch_call' = PrimaryCall("execute_code")
        /\ UNCHANGED break_pc

PrimaryTakeBreak ==
    \E w \in {take_break(World(Layer1Workspace))} :
      /\ orch_call.count < MaxDualCalls
      /\ CommitOn(Layer1Workspace, w)
      /\ agent_objs' = w.objs
      /\ orch_call' = PrimaryCall("take_break")
      /\ UNCHANGED break_pc

\* The workspace of the primary layer and the fields of its agent objects.
PrimaryState ==
    [mem |-> memory_file[Layer1Workspace], ctx |-> context_file[Layer1Workspace],
     log |-> log_file[Layer1Workspace], objs |-> agent_objs]

\* _monitor_layer1(): nothing without a shadow layer; else
\* layer1_agent1.get_status() is read and layer2_agent3m.diagnose_system()
\* runs, on the workspace of layer2_agent3m.
MonitorLayer1 ==
    /\ orch_call.count < MaxDualCalls
    /\ IF ~agent_objs.shadow_inference
       THEN /\ orch_call' = PrimaryCall("no shadow layer")
            /\ UNCHANGED <<memory_file, context_file, log_file>>
       ELSE \E w \in {diagnose_system(World(Layer2Workspace))} :
              /\ CommitOn(Layer2Workspace, w)
              /\ orch_call' =
                    [op |-> "_monitor_layer1", count |-> orch_call.count + 1,
                     layer1_status |-> get_status(World(Layer1Workspace)).agent1,
                     diagnosis |-> w.diagnosis,
                     primary_before |-> PrimaryState]
    /\ UNCHANGED <<agent_objs, break_pc>>

NextDual ==
    \/ PrimaryStartTask /\ UNCHANGED exceptAgents
    \/ PrimaryExecuteCode /\ UNCHANGED exceptAgents
    \/ PrimaryTakeBreak /\ UNCHANGED exceptAgents
    \/ MonitorLayer1 /\ UNCHANGED exceptAgents

SpecDual == InitDual /\ [][NextDual]_vars

\* ------------------------------------------------------------ claim C30
\* C30: in the dual-layer variant the shadow layer's monitoring step leaves
\* the primary layer's workspace (agent states, ledgers, user context, log)
\* and objects unchanged, and what it reads of the primary is the primary's
\* agent state.
C30_ShadowNeverMutatesPrimary ==
    orch_call.op = "_monitor_layer1" =>
        /\ PrimaryState = orch_call.primary_before
        /\ orch_call.layer1_status.state =
              get_agent_state(memory_file[Layer1Workspace].data, "agent1_coder")

\* The shadow has diagnosed while the primary executor was coding and had
\* logged.
C30_Witness ==
    /\ orch_call.op = "_monitor_layer1"
    /\ orch_call.layer1_status.state.status = "coding"
    /\ log_file[Layer1Workspace] # <<>>
    /\ log_file[Layer2Workspace] # <<>>

\* ------------ core/dual_layer_orchestrator.py: DualLayerTriAgent.execute_task
\* DualLayerTriAgent(workspace_id = "default"): self.spawner and self.memory
\* work on workspace_id itself, the primary agents on Layer1Workspace, the
\* shadow agents on Layer2Workspace.
DualWorkspace == spawner_workspace(Orchestrator)

\* spawn_tri_agent_team(task, parent_agent_id, team_workspace = ...): the
\* descriptor of the team just admitted names the workspace passed in.
spawn_team_on(st, task, parent_agent_id, team_workspace) ==
    LET st1 == spawn_tri_agent_team(st, Orchestrator, task, parent_agent_id)
        admitted == Len(st1.teams) > Len(st.teams)
        team_id == IF admitted THEN st1.teams[Len(st1.teams)] ELSE NoTeam
    IN  [st |-> IF admitted
                THEN [st1 EXCEPT !.configs[team_id].workspace = team_workspace]
                ELSE st1,
         team_id |-> team_id]

\* _spawn_dual_layer_team(task, team_index): a primary team, and a shadow
\* team when there is a shadow layer; what it returns is the primary id, or
\* f"{team_id_primary}+{team_id_shadow}".
spawn_dual_layer_team(d, task, team_index, shadow) ==
    LET subtask == SubtaskFor(task, team_index)
        primary == spawn_team_on(d.st, subtask, "layer1_agent1",
                                 <<DualWorkspace, "team", team_index, "layer1">>)
        monitor == spawn_team_on(primary.st, <<"Monitor", subtask>>, "layer2_agent1m",
                                 <<DualWorkspace, "team", team_index, "layer2">>)
    IN  IF shadow
        THEN [st |-> monitor.st, requests |-> d.requests + 2,
              teams_spawned |-> Append(d.teams_spawned,
                                       <<primary.team_id, monitor.team_id>>)]
        ELSE [st |-> primary.st, requests |-> d.requests + 1,
              teams_spawned |-> Append(d.teams_spawned, <<primary.team_id>>)]

\* for i in range(teams_needed): teams_spawned.append(_spawn_dual_layer_team(task, i))
RECURSIVE dual_spawn_loop(_, _, _, _, _)
dual_spawn_loop(d, task, i, teams_needed, shadow) ==
    IF i >= teams_needed
    THEN d
    ELSE dual_spawn_loop(spawn_dual_layer_team(d, task, i, shadow), task, i + 1,
                         teams_needed, shadow)

\* The threshold of "if complexity > 3", where complexity is what
\* assess_task_complexity returned.
DualSpawnThreshold == 3

\* The spawning step of execute_task: complexity // 4 + 1 team pairs when
\* complexity is above the threshold.
dual_spawn_step(st, task, shadow) ==
    LET complexity == assess_task_complexity(task)
        d0 == [st |-> st, requests |-> 0, teams_spawned |-> <<>>]
    IN  IF complexity > DualSpawnThreshold
        THEN dual_spawn_loop(d0, task, 0, (complexity \div 4) + 1, shadow)
        ELSE d0

\* _monitor_layer1() inside execute_task: layer2_agent3m.diagnose_system().
monitor_layer1(w2, shadow) == IF shadow THEN diagnose_system(w2) ELSE w2

\* Agent1Coder.focus_on_user_context() on a context.json dict.
focus_on_user_context(c) ==
    [user_input |-> c.user_input, user_docs |-> c.user_docs,
     codebase_context |-> c.codebase_context]

\* execute_task(task) of the dual-layer system: what it leaves of the
\* spawner, of workspace_id (w0), of the primary workspace (w1) and of the
\* shadow workspace (w2), and the dict it returns. The context goes through
\* self.memory, the SharedMemory of workspace_id; a "user_docs" key of the
\* task is not read.
dual_execute_task(st, w0, w1, w2, x, shadow) ==
    LET spawned == dual_spawn_step(st, x.task, shadow)
        started == start_task(Step(w1, "spawning", spawned.requests),
                              IF x.description = None THEN "Task" ELSE x.description)
        with_input == IF started.raised \/ x.user_input = None THEN w0
                      ELSE WithContext(w0, add_user_context(w0.ctx.data, "user_input",
                                                            x.user_input))
        monitored == IF started.raised \/ with_input.raised THEN w2
                     ELSE monitor_layer1(w2, shadow)
        raised == started.raised \/ with_input.raised \/ monitored.raised
    IN  [st |-> spawned.st, requests |-> spawned.requests,
         w0 |-> with_input, w1 |-> started, w2 |-> monitored, raised |-> raised,
         result |-> IF raised THEN EmptyDict
                    ELSE [task |-> x.description, status |-> "executing",
                          layer1 |-> get_status(started),
                          layer2 |-> IF shadow THEN get_status(monitored) ELSE None,
                          spawned_teams |-> spawned.teams_spawned]]

\* The agent objects of the shadow layer: nothing in execute_task changes
\* their fields.
ShadowWorld == [World(Layer2Workspace) EXCEPT !.objs = InitialAgentObjects]

\* A system is constructed as one of the two variants; agent_objs of a
\* dual-layer system carries shadow_inference.
IsDualLayer == "shadow_inference" \in DOMAIN agent_objs

\* One call of DualLayerTriAgent.execute_task, run to completion.
DualExecuteTask ==
    \E x \in ExecInputs :
      \E e \in {dual_execute_task(SpawnerState(Orchestrator), World(DualWorkspace),
                                  World(Layer1Workspace), ShadowWorld, x,
                                  agent_objs.shadow_inference)} :
          /\ orch_call.count < MaxExecCalls
          /\ uuid_count[1] + uuid_count[2] + e.requests <= MaxTeamIds
          /\ memory_file' = [memory_file EXCEPT
                                ![DualWorkspace].data = e.st.mem,
                                ![Layer1Workspace] = e.w1.mem]
          /\ context_file' = [context_file EXCEPT ![DualWorkspace] = e.w0.ctx]
          /\ log_file' = [log_file EXCEPT ![DualWorkspace] = e.st.log,
                                          ![Layer1Workspace] = e.w1.log,
                                          ![Layer2Workspace] = e.w2.log]
          /\ spawned_teams' = [spawned_teams EXCEPT ![Orchestrator] = e.st.teams]
          /\ team_configs' = e.st.configs
          /\ uuid_count' = [uuid_count EXCEPT ![Orchestrator] = e.st.uuid]
          /\ agent_objs' = e.w1.objs
          /\ orch_call' =
                [op |-> "dual_execute_task", count |-> orch_call.count + 1,
                 input |-> x, raised |-> e.raised, result |-> e.result,
                 trace |-> e.w1.trace, requests |-> e.requests,
                 diagnosis |-> e.w2.diagnosis,
                 active_before |-> Len(spawned_teams[Orchestrator]),
                 log_before |-> Len(log_file[DualWorkspace])]
          /\ UNCHANGED <<terminations, last_call, break_pc>>

\* A system of either variant constructed on "default", on files that are
\* intact, with the log an earlier run left.
InitVariants ==
    /\ memory_file = [w \in Workspaces |-> [ok |-> TRUE, data |-> InitialMemory(w)]]
    /\ context_file = [w \in Workspaces |-> [ok |-> TRUE, data |-> InitialContext]]
    /\ \E l \in FoundLogs :
          log_file = [w \in Workspaces |->
                         IF w \in {OrchWorkspace, Layer2Workspace} THEN l ELSE <<>>]
    /\ InitNoThreads /\ InitSpawners /\ InitNoInference /\ InitAssessor
    /\ task_call = NoTaskCall
    /\ store_call = NoStoreCall
    /\ agent_objs \in
          {InitialAgentObjects}
          \cup { [current_task |-> None, needs_help |-> FALSE,
                  is_substituting |-> FALSE, interventions |-> 0,
                  shadow_inference |-> available] : available \in BOOLEAN }
    /\ orch_call = NoOrchCall
    /\ break_pc = [c \in BreakCallers |-> "idle"]

NextVariants ==
    \/ ~IsDualLayer /\ ExecuteTask /\ UNCHANGED exceptOrchestrator
    \/ IsDualLayer /\ DualExecuteTask /\ UNCHANGED exceptOrchestrator

SpecVariants == InitVariants /\ [][NextVariants]_vars

\* ------------------------------------------------------------ claim C31
\* The teams the last dual-layer call asked for, one entry per team pair.
DualTeamPairs == Len(orch_call.result.spawned_teams)

\* C31: in both orchestrator variants a task assessed at n > 0 extra teams
\* causes spawn requests for n teams (team pairs in the dual-layer variant,
\* n never above 3) before the primary executor starts, and a task assessed
\* at 0 causes none. With room in the registry every request is admitted,
\* so the requests of the single-layer call are the teams it registered.
C31_SpawnsIffTeamsNeeded ==
    /\ orch_call.op = "execute_task" =>
          /\ ExecTeamsNeeded <= 3
          /\ Len(ExecAdmitted) = ExecTeamsNeeded
          /\ orch_call.result.spawned_teams = ExecAdmitted
    /\ orch_call.op = "dual_execute_task" =>
          /\ ExecTeamsNeeded <= 3
          /\ DualTeamPairs = ExecTeamsNeeded
          /\ ExecSteps = <<"spawning", "start_task">>
          /\ orch_call.trace[1].seen =
                ExecTeamsNeeded * (IF agent_objs.shadow_inference THEN 2 ELSE 1)

\* ------------------------------------------------------------ claim C39
\* The workspace the primary executor of the constructed system reads.
ExecutorWorkspace == IF IsDualLayer THEN Layer1Workspace ELSE OrchWorkspace

\* What the executor's focus_on_user_context returns after the last call.
ExecutorFocus == focus_on_user_context(context_file[ExecutorWorkspace].data)

\* C39: after execute_task on a task carrying user_input (or user_docs),
\* the buffers the executor's focus_on_user_context returns contain that
\* text, in the single-layer and in the dual-layer system alike.
C39_UserContextReachesExecutor ==
    orch_call.op \in {"execute_task", "dual_execute_task"} =>
        /\ orch_call.input.user_input # None =>
              InList(ExecutorFocus.user_input, [content |-> orch_call.input.user_input])
        /\ orch_call.input.user_docs # None =>
              InList(ExecutorFocus.user_docs, [content |-> orch_call.input.user_docs])

\* ----------------- core/orchestrator.py, agents/agent3_doctor.py: a dispute
\* The two texts settle_dispute builds, whatever the positions are.
DisputeDecision == "Decision: Both agents have valid points."
DisputeReasoning == "Agent 1's approach is more aligned with user requirements."

settle_dispute_MarksArbitrating(w, agent1_position, agent2_position, context) ==
    LET w1 == WriteLog(w, "agent3_doctor", "Settling dispute. Context", context, "INFO")
        w2 == WithMemory(w1, add_decision(w1.mem.data, "agent3_doctor",
                                          DisputeDecision, DisputeReasoning))
    IN  WithMemory(w2, update_agent_state(w2.mem.data, "agent3_doctor",
                                          "arbitrating", None))

\* Agent3Doctor.settle_dispute(agent1_position, agent2_position, context):
\* one log line, then one entry in the decision ledger.
settle_dispute(w, agent1_position, agent2_position, context) ==
    LET w1 == WriteLog(w, "agent3_doctor", "Settling dispute. Context", context, "INFO")
    IN  WithMemory(w1, add_decision(w1.mem.data, "agent3_doctor",
                                    DisputeDecision, DisputeReasoning))

\* What settle_dispute returns, and handle_dispute after it.
handle_dispute(w, agent1_position, agent2_position) ==
    LET w1 == settle_dispute(w, agent1_position, agent2_position,
                             "Implementation approach")
    IN  [w |-> w1,
         result |-> IF w1.raised THEN EmptyDict
                    ELSE [decision |-> DisputeDecision,
                          reasoning |-> DisputeReasoning]]

Positions == {"use a cache", "recompute"}

\* One call of handle_dispute, run to completion.
HandleDispute ==
    \E p1 \in Positions, p2 \in Positions :
      \E e \in {handle_dispute(World(OrchWorkspace), p1, p2)} :
        /\ AllIdle /\ orch_call.count < MaxRestCalls
        /\ Commit(e.w)
        /\ orch_call' =
              [op |-> "handle_dispute", count |-> orch_call.count + 1,
               raised |-> e.w.raised, result |-> e.result]
        /\ UNCHANGED break_pc

\* Disputes between the calls that fill the store: a task executed (teams
\* spawned, user context stored), tasks started, rests, bugs recorded.
NextDispute ==
    \/ HandleDispute /\ UNCHANGED exceptAgents
    \/ StartTask /\ UNCHANGED exceptAgents
    \/ TakeBreak /\ UNCHANGED exceptAgents
    \/ ExecuteTask /\ UNCHANGED exceptOrchestrator
    \/ AddBug /\ UNCHANGED exceptStoreCaller

SpecDispute == InitSpawn /\ [][NextDispute]_vars

\* ------------------------------------------------------------ claim C32
\* The store of the orchestrator's workspace, the decision ledger left out.
WithoutDecisions(m) == [k \in DOMAIN m \ {"decisions"} |-> m[k]]

\* C32: every handle_dispute call appends exactly one entry to the decision
\* ledger, attributed to the arbitrator and carrying the decision and the
\* rationale the call returns, and leaves the agent states, the bug and
\* solution ledgers, the spawn records and the registry, the user context
\* and the agent objects as they were.
C32_DisputeOnlyRecordsDecision ==
    [][(orch_call' # orch_call /\ orch_call'.op = "handle_dispute") =>
          /\ ~orch_call'.raised
          /\ memory_file'[OrchWorkspace].data.decisions =
                Append(memory_file[OrchWorkspace].data.decisions,
                       [agent_id |-> "agent3_doctor",
                        decision |-> orch_call'.result.decision,
                        reasoning |-> orch_call'.result.reasoning])
          /\ WithoutDecisions(memory_file'[OrchWorkspace].data) =
                WithoutDecisions(memory_file[OrchWorkspace].data)
          /\ \A w \in Workspaces \ {OrchWorkspace} : memory_file'[w] = memory_file[w]
          /\ context_file' = context_file
          /\ spawned_teams' = spawned_teams /\ team_configs' = team_configs
          /\ agent_objs' = agent_objs]_vars

\* A dispute was handled on a store that holds a second decision already, a
\* bug, a spawn record, user context and an executor that is not idle.
C32_Witness ==
    /\ orch_call.op = "handle_dispute"
    /\ Len(memory_file[OrchWorkspace].data.decisions) >= 2
    /\ memory_file[OrchWorkspace].data.bugs_encountered # <<>>
    /\ memory_file[OrchWorkspace].data.spawned_agents # <<>>
    /\ memory_file[OrchWorkspace].data.agent_states["agent1_coder"].status # "idle"

\* ------------------------------- core/spawner.py: what a spawn leaves behind
\* check_team_status(team_id): the persisted config.json, or None.
check_team_status(configs, team_id) ==
    IF team_id \in DOMAIN configs THEN configs[team_id] ELSE None

\* The memory.json of a workspace given by the parts of its name: <<w>> is
\* workspace w, <<w, team_id>> is f"{w}_{team_id}". Files exist for the
\* workspaces a SharedMemory was constructed on.
MemoryFileOf(name) ==
    IF name \in {<<w>> : w \in DOMAIN memory_file}
    THEN memory_file[name[1]]
    ELSE AbsentFile

\* ------------------------------------------------------------ claim C33
\* The ids spawn_tri_agent_team has returned so far.
ReturnedTeamIds == DOMAIN team_configs

\* C33: for every team id a spawn has returned, the parent's store holds a
\* spawn record with that id, the task, the parent id and status active,
\* the team's own workspace holds a fresh triple of agent states, and
\* check_team_status returns the descriptor with task, parent and role set.
C33_SpawnSideEffects ==
    \A team_id \in ReturnedTeamIds :
        LET config == check_team_status(team_configs, team_id)
            parent == memory_file[config.parent_workspace].data
        IN  /\ \E i \in DOMAIN parent.spawned_agents :
                  parent.spawned_agents[i] =
                      [parent_id |-> config.spawned_by, spawned_id |-> team_id,
                       task |-> config.task, status |-> "active"]
            /\ config.team_id = team_id
            /\ DOMAIN config.agents = AgentIds
            /\ MemoryFileOf(config.workspace).ok
            /\ MemoryFileOf(config.workspace).data.agent_states = InitialAgentStates

\* ------------------------------------------------------------ claim C34
\* A step that is a terminate_team(t) call on spawner s.
TerminateStep(s, t) ==
    /\ terminations' # terminations
    /\ last_call'.op = "terminate"
    /\ last_call'.spawner = s
    /\ last_call'.arg = t

MaxIsolationCalls == 3

\* The three files of a workspace.
FilesOf(w) == [memory |-> memory_file[w], context |-> context_file[w],
               log |-> log_file[w]]

IsolationCall(t, op) ==
    [op |-> op, count |-> store_call.count + 1, updated |-> {}, caller |-> t]

\* A mutating operation: _read_json, the change, _write_json, all on the
\* files of the instance's base_dir.
CallStoreOp(t) ==
    \E o \in StoreOps :
      LET f == IF OnContext(o) THEN context_file[wsOf(t)] ELSE memory_file[wsOf(t)]
      IN  /\ store_call.count < MaxIsolationCalls
          /\ ~Raises(o, f.data)
          /\ IF OnContext(o)
             THEN /\ context_file' = [context_file EXCEPT ![wsOf(t)].data = Modify(o, @)]
                  /\ UNCHANGED memory_file
             ELSE /\ memory_file' = [memory_file EXCEPT ![wsOf(t)].data = Modify(o, @)]
                  /\ UNCHANGED context_file
          /\ store_call' = IsolationCall(t, o.op)
          /\ UNCHANGED log_file

\* log(agent_id, message)
CallLog(t) ==
    /\ store_call.count < MaxIsolationCalls
    /\ log_file' = [log_file EXCEPT ![wsOf(t)] =
          Append(@, LogLine("agent1_coder", Len(@) + 1, "INFO"))]
    /\ store_call' = IsolationCall(t, "log")
    /\ UNCHANGED <<memory_file, context_file>>

\* The reads: _read_json(memory_file) behind get_agent_state,
\* get_conversation_history and get_spawned_agents, get_user_context, and
\* read_logs.
CallReads(t) ==
    /\ store_call.count < MaxIsolationCalls
    /\ store_call' =
          [IsolationCall(t, "read") EXCEPT !.count = store_call.count] @@
          [result |-> [memory |-> memory_file[wsOf(t)].data,
                       context |-> context_file[wsOf(t)].data,
                       log |-> read_logs(log_file[wsOf(t)], 100)]]
    /\ UNCHANGED storeVars

NextIsolation ==
    \E t \in Threads :
        \/ CallStoreOp(t) /\ UNCHANGED exceptStoreCaller
        \/ CallLog(t) /\ UNCHANGED exceptStoreCaller
        \/ CallReads(t) /\ UNCHANGED exceptStoreCaller

SpecIsolation == InitStore /\ [][NextIsolation]_vars

\* ------------------------------------------------------------ claim C35
\* The workspace_id the instance of caller t was constructed on.
ConstructedOn(t) == instWs[instOf[t]]

\* C35: a store operation through an instance of workspace W leaves the
\* files (ledgers, agent states, spawn records, user context, log) of every
\* other workspace as they were, and what the reads return is what is
\* stored on W.
C35_WorkspacesIsolated ==
    [][(store_call' # store_call) =>
          LET t == store_call'.caller
          IN  /\ \A w \in Workspaces \ {ConstructedOn(t)} : FilesOf(w)' = FilesOf(w)
              /\ store_call'.op = "read" =>
                    /\ store_call'.result.memory = memory_file[ConstructedOn(t)].data
                    /\ store_call'.result.context = context_file[ConstructedOn(t)].data
                    /\ store_call'.result.log = log_file[ConstructedOn(t)]]_vars

\* Both workspaces hold something the other does not, and the caller on
\* "other" has read its own.
C35_Witness ==
    /\ store_call.op = "read"
    /\ ConstructedOn(store_call.caller) = "other"
    /\ memory_file["default"].data.bugs_encountered # <<>>
    /\ memory_file["other"].data.bugs_encountered = <<>>
    /\ log_file["other"] # <<>>
    /\ log_file["default"] = <<>>

\* ------------------------------------------------------------ claim C36
\* Ledger a is a prefix of ledger b.
IsPrefix(a, b) ==
    /\ Len(a) <= Len(b)
    /\ \A i \in DOMAIN a : a[i] = b[i]

\* The same for the bug ledger, where resolved may go from false to true.
IsBugPrefix(a, b) ==
    /\ Len(a) <= Len(b)
    /\ \A i \in DOMAIN a :
          /\ [b[i] EXCEPT !.resolved = a[i].resolved] = a[i]
          /\ a[i].resolved => b[i].resolved

\* The ledgers of m2 extend those of m1.
Extends(m1, m2) ==
    /\ IsPrefix(m1.conversation_history, m2.conversation_history)
    /\ IsPrefix(m1.decisions, m2.decisions)
    /\ IsPrefix(m1.solutions, m2.solutions)
    /\ IsPrefix(m1.spawned_agents, m2.spawned_agents)
    /\ IsBugPrefix(m1.bugs_encountered, m2.bugs_encountered)

\* C36: under any interleaving of store operations the conversation,
\* decision, bug and solution ledgers and the spawn records of a workspace
\* only grow: what a ledger held before a step is a prefix of what it holds
\* after it, a bug's resolved flag going from false to true at most.
C36_LedgersAppendOnly ==
    [][\A w \in Workspaces :
          Extends(memory_file[w].data, memory_file'[w].data)]_vars

\* ------ core/orchestrator.py: two callers inside agent1_takes_break at once
\* Each of the four calls of agent1_takes_break goes through
\* memory.update_agent_state, which is _read_json, a change to the dict
\* read, and _write_json: the lock is released between the two, so a step
\* of the other caller may fall in between. Each caller makes one call.
BreakSequence == <<"take_break", "substitute_for_agent1", "resume", "step_back">>

\* The positions of a caller: about to read, and about to write, in call k.
ReadPc == <<"take_break: read", "substitute_for_agent1: read", "resume: read",
            "step_back: read">>
WritePc == <<"take_break: write", "substitute_for_agent1: write", "resume: write",
             "step_back: write">>

\* The call of BreakSequence a caller is in, from what it has read.
BreakApply(name, w) ==
    CASE name = "take_break" -> take_break(w)
      [] name = "substitute_for_agent1" -> substitute_for_agent1(w, w.objs.current_task)
      [] name = "resume" -> resume(w)
      [] name = "step_back" -> step_back(w)

InBreak(c) == break_pc[c] \notin {"idle", "done"}

\* agent1_takes_break() is entered.
BreakEnter(c) ==
    /\ break_pc[c] = "idle"
    /\ break_pc' = [break_pc EXCEPT ![c] = ReadPc[1]]
    /\ orch_call' =
          [op |-> "agent1_takes_break", count |-> orch_call.count,
           overlapped |-> \/ \E o \in BreakCallers \ {c} : InBreak(o)
                          \/ ("overlapped" \in DOMAIN orch_call /\ orch_call.overlapped)]
    /\ UNCHANGED <<storeVars, agent_objs, local>>

\* The call sets the field of its agent object and reads memory.json.
BreakRead(c) ==
    \E k \in DOMAIN BreakSequence :
      /\ break_pc[c] = ReadPc[k]
      /\ agent_objs' = BreakApply(BreakSequence[k], World(OrchWorkspace)).objs
      /\ local' = [local EXCEPT ![c] = memory_file[OrchWorkspace]]
      /\ break_pc' = [break_pc EXCEPT ![c] = WritePc[k]]
      /\ UNCHANGED <<storeVars, orch_call>>

\* The dict read, with the agent's state replaced, is written back, and the
\* call logs its line.
BreakWrite(c) ==
    \E k \in DOMAIN BreakSequence :
      /\ break_pc[c] = WritePc[k]
      /\ \E w \in {BreakApply(BreakSequence[k],
                              [World(OrchWorkspace) EXCEPT !.mem = local[c]])} :
            /\ memory_file' = [memory_file EXCEPT ![OrchWorkspace] = w.mem]
            /\ log_file' = [log_file EXCEPT ![OrchWorkspace] = w.log]
      /\ local' = [local EXCEPT ![c] = None]
      /\ break_pc' = [break_pc EXCEPT ![c] =
            IF k = Len(BreakSequence) THEN "done" ELSE ReadPc[k + 1]]
      /\ UNCHANGED <<context_file, agent_objs, orch_call>>

exceptBreakCallers ==
    <<instOf, instWs, lock, pc, cur, wdirty, hist, spawnVars, spawnThreadVars,
      inferVars, assessVars, seqVars>>

NextRestConc ==
    \/ StartTask /\ UNCHANGED exceptAgents
    \/ \E c \in BreakCallers :
          \/ BreakEnter(c) /\ UNCHANGED exceptBreakCallers
          \/ BreakRead(c) /\ UNCHANGED exceptBreakCallers
          \/ BreakWrite(c) /\ UNCHANGED exceptBreakCallers

SpecRestConc == InitSpawn /\ [][NextRestConc]_vars

\* ------------------------------------------------------------ claim C37
BothBreaksOver == \A c \in BreakCallers : break_pc[c] = "done"

\* The outcome of the handoff run by one caller at a time.
SequentialOutcome ==
    /\ StoredState("agent1_coder") = Active(agent_objs.current_task)
    /\ StoredState("agent2_improver") = [status |-> "monitoring", current_task |-> None]
    /\ ~agent_objs.is_substituting

\* C37: the handoff has no locking across its calls, so two callers of
\* agent1_takes_break race: when both calls are over, a state other than
\* the sequential outcome (executor active with its task, reviewer
\* monitoring) is left only by calls that overlapped, and some interleaving
\* of two overlapping calls does leave one.
C37_HandoffRaces ==
    (BothBreaksOver /\ ~SequentialOutcome) => orch_call.overlapped

\* Both calls are over, the executor had a task, and the store says the
\* executor is resting: the resume of one caller was overwritten.
C37_Witness ==
    /\ BothBreaksOver
    /\ agent_objs.current_task = "T1"
    /\ StatusOf(StoredState("agent1_coder")) = "resting"

\* ------------- agents/agent3_doctor.py: health checks repeated without end
\* No line is logged at level ERROR or WARNING any more. The executor is
\* given a task or none; with a task, the orchestrator's break handoff and
\* the health check take turns, without a task the health check is repeated.
\* Lines older than the last DiagnosisTail lines are never read again by a
\* diagnosis; log_file keeps the lines that can still be read.
RecoverLogs == {LogOf(6, 0, 0), LogOf(0, 11, 0), LogOf(6, 2, 0)}

InitRecover ==
    /\ memory_file = [w \in Workspaces |-> [ok |-> TRUE, data |-> InitialMemory(w)]]
    /\ context_file = [w \in Workspaces |-> [ok |-> TRUE, data |-> InitialContext]]
    /\ \E l \in RecoverLogs :
          log_file = [w \in Workspaces |-> IF w = OrchWorkspace THEN l ELSE <<>>]
    /\ InitNoThreads /\ InitSpawners /\ InitNoInference /\ InitAssessor
    /\ task_call = NoTaskCall
    /\ store_call = NoStoreCall
    /\ agent_objs = InitialAgentObjects
    /\ orch_call = [op |-> "none", count |-> 0, diagnosis |-> NoDiagnosis]
    /\ break_pc = [c \in BreakCallers |-> "idle"]

\* agent1_takes_break(), run to completion.
agent1_takes_break(w) ==
    step_back(resume(substitute_for_agent1(take_break(w), w.objs.current_task)))

RecoverCommit(w) ==
    /\ memory_file' = [memory_file EXCEPT ![OrchWorkspace] = w.mem]
    /\ log_file' = [log_file EXCEPT ![OrchWorkspace] = read_logs(w.log, DiagnosisTail)]
    /\ agent_objs' = w.objs
    /\ UNCHANGED <<context_file, break_pc>>

\* agent1.start_task(task), as the first call.
RecoverStartTask ==
    \E task \in LoggedTexts :
      /\ orch_call.op = "none"
      /\ RecoverCommit(start_task(World(OrchWorkspace), task))
      /\ orch_call' = [orch_call EXCEPT !.op = "start_task"]

RecoverBreak ==
    /\ agent_objs.current_task # None
    /\ orch_call.op # "agent1_takes_break"
    /\ RecoverCommit(agent1_takes_break(World(OrchWorkspace)))
    /\ orch_call' = [orch_call EXCEPT !.op = "agent1_takes_break"]

\* agent3.diagnose_system(), again and again.
RecoverDiagnose ==
    \E w \in {diagnose_system(World(OrchWorkspace))} :
      /\ agent_objs.current_task # None => orch_call.op # "diagnose_system"
      /\ RecoverCommit(w)
      /\ orch_call' = [op |-> "diagnose_system", count |-> 0,
                       diagnosis |-> w.diagnosis]

NextRecover ==
    \/ RecoverStartTask /\ UNCHANGED exceptAgents
    \/ RecoverBreak /\ UNCHANGED exceptAgents
    \/ RecoverDiagnose /\ UNCHANGED exceptAgents

SpecRecover == InitRecover /\ [][NextRecover]_vars

\* The calls go on for ever.
FairSpecRecover == SpecRecover /\ WF_vars(NextRecover)

\* ------------------------------------------------------------ claim C38
\* C38: once no line is logged at level ERROR or WARNING any more, repeated
\* health checks eventually classify the system as healthy and go on doing
\* so.
C38_HealthRecovers ==
    <>[](orch_call.diagnosis.health = "healthy")

=============================================================================
